---- MODULE Spec2Model ----
(***************************************************************************)
(* Model of the park-metrics-collector wait-time aggregator                *)
(* (lib/aggregator: WaitTimeAggregator).                                   *)
(*                                                                         *)
(* Spec runs one call of an exported operation from its entry:             *)
(*   processRideData, one loop iteration per step, over bounded snapshots  *)
(*   and ride mappings;                                                    *)
(*   aggregateWaitTime, over a range of optional wait times.               *)
(*                                                                         *)
(* Numbers.  Confidence scores are held in tenths (1.0 is 10, 0.5 is 5).   *)
(* The average (q + t) / 2 is held as the pair sum/2 and the percentage    *)
(* difference as the fraction 200 * difference / sum, compared by          *)
(* cross-multiplication; the weighted blend q * 0.55 + t * 0.45 is held    *)
(* in hundredths.  For the integer waits 0..599 the IEEE-754 double        *)
(* evaluation of the source expressions gives the same comparisons and the *)
(* same Math.round result as this exact arithmetic.                        *)
(*                                                                         *)
(* Identifiers.  Queue-Times ride ids are numbers, rendered by             *)
(* ride.id.toString(); ThemeParks.wiki ids are entity id strings.  The     *)
(* two id spaces are disjoint, and ids are distinct within one snapshot    *)
(* (collectQueueTimes de-duplicates by id).                                *)
(***************************************************************************)
EXTENDS Integers, Sequences, FiniteSets, TLC

\* ---------------------------------------------------------------- bounds
\* largest wait time of a ride record in a snapshot
MaxWaitTime == 2
\* largest wait time handed to a direct aggregateWaitTime call
MaxAggregateWait == 50

\* ------------------------------------------------------- value encodings
\* `undefined` for an optional number (queueTimesWait?, themeparksWait?, ...)
Undefined == -1
\* rideMapping.get(key) of a missing key
NoMapping == "undefined"
\* no division was evaluated by calculateConfidence
NoDivision == -1

\* the rides a park can report: numeric Queue-Times ids, ThemeParks.wiki
\* entity ids, and the single-rider waits ThemeParks.wiki may add
QueueTimesIds == {1, 2}
ThemeparksIds == {"abc", "def"}
SingleRiderTimes == {Undefined, 5}

Abs(x) == IF x < 0 THEN 0 - x ELSE x

VARIABLES
  operation,        \* the exported operation that was called
  queueTimesData,   \* processRideData argument: Queue-Times snapshot
  themeparksData,   \* processRideData argument: ThemeParks.wiki snapshot
  rideMapping,      \* processRideData argument: Map<string, string>
  results,          \* local `results`
  processedRides,   \* local `processedRides`
  qtIndex,          \* position of the first loop
  tpIndex,          \* position of the second loop
  returned,         \* processRideData has returned `results`
  queueTime,        \* aggregateWaitTime argument
  themeparksTime,   \* aggregateWaitTime argument
  aggregate,        \* value returned by aggregateWaitTime, with the divisor used
  aggregateDone     \* aggregateWaitTime has returned


reconcileVars == <<operation, queueTimesData, themeparksData, rideMapping, results,
                   processedRides, qtIndex, tpIndex, returned>>
aggregateVars == <<queueTime, themeparksTime, aggregate, aggregateDone>>

VARIABLES
  score,            \* getConfidenceLevel argument, in thousandths
  level,            \* value returned by getConfidenceLevel
  classified        \* getConfidenceLevel has returned

classifyVars == <<score, level, classified>>

VARIABLES
  phase,            \* which processRideData call of one instance is running
  firstInput,       \* arguments of the instance's first processRideData call
  firstResults      \* what that call returned

repeatVars == <<phase, firstInput, firstResults>>

VARIABLES
  stage,            \* where the collector is in the body of one location
  metaMap,          \* Map of metadata external_id -> id
  waitTimeRecords,  \* the records prepared for ride_wait_time_history
  recordIndex,      \* position of `for (const ride of aggregatedData)`
  stats             \* the counters of the run

collectorVars == <<stage, metaMap, waitTimeRecords, recordIndex, stats>>

VARIABLES
  prunePc,          \* position of the prune job
  tableRows,        \* table name -> (row id -> recorded_at)
  batchSize,        \* PRUNE_BATCH_SIZE
  maxBatches,       \* PRUNE_MAX_BATCHES
  deleteChunkSize,  \* PRUNE_DELETE_CHUNK_SIZE
  tableIndex,       \* position of `for (const table of tables)`
  deletedRows,      \* pruneTableInBatches local
  batches,          \* pruneTableInBatches local
  hitBatchLimit,    \* pruneTableInBatches local
  ids,              \* the ids of the selected batch
  idx,              \* offset of the next chunk in ids
  remainingOlderRows, \* result of countOlderRows for the current table
  tableResults,     \* the TableResult of each pruned table
  cronLogs,         \* the statuses inserted into cron_logs, in order
  thrown,           \* message of the error being thrown, "" for none
  prunedRows        \* every row the job has deleted: <<table, id, recorded_at>>

pruneVars == <<prunePc, tableRows, batchSize, maxBatches, deleteChunkSize, tableIndex,
               deletedRows, batches, hitBatchLimit, ids, idx, remainingOlderRows,
               tableResults, cronLogs, thrown, prunedRows>>

VARIABLES
  locations,        \* the rows of `locations`: which have coordinates, an external id
  locationIndex,    \* position of `for (const location of locations)`
  collectPc,        \* position of the collection run
  loopStats,        \* the stats object of the run
  weatherRecords,   \* location index of each weather record collected
  queueRecords,     \* <<location index, item>> of each wait time record collected
  outcomes,         \* the console line closing each iteration: "WQ" or "ERROR"
  tursoWeather,     \* the records handed to writeWeatherToTurso
  tursoWaitTimes    \* the records handed to writeWaitTimesToTurso

locationVars == <<locations, locationIndex, collectPc, loopStats, weatherRecords,
                  queueRecords, outcomes, tursoWeather, tursoWaitTimes>>

VARIABLES
  cache,            \* ThemeParksWikiClient.cache: park id -> entry or NoEntry
  now,              \* Date.now()
  clientPc,         \* position of the getParkWaitTimes call
  parkId,           \* argument of the call
  cached,           \* local `cached` of the call
  checkedAt,        \* Date.now() at the freshness test of the call
  responses,        \* the outcomes of the fetches the call has issued and seen answered
  fetches,          \* number of fetches the call has issued
  stores,           \* number of cache.set the call has done
  callResult,       \* value the call returned
  clearedBefore,    \* whether and when clearCache ran between the previous entry and this one
  clearedSince      \* whether and when clearCache ran since the call was entered

cacheVars == <<cache, now, clientPc, parkId, cached, checkedAt, responses, fetches,
               stores, callResult, clearedBefore, clearedSince>>

VARIABLES
  writer,           \* the writer called: writeWaitTimesToTurso or writeWeatherToTurso
  credentials,      \* whether the TursoDB url and token are in the environment
  records,          \* argument of the writer: the id of each record, in order
  recordPos,        \* position of `for (const record of records)`
  inserted,         \* local `inserted` of the writer
  attempts,         \* the positions whose try block has run, in order
  executed,         \* the positions whose insert resolved, in order
  errorLog,         \* the positions logged by console.error, in order
  tursoRows,        \* table -> ids of the rows it holds
  writerPc,         \* position of the writer
  writeResult       \* value the writer returned

writerVars == <<writer, credentials, records, recordPos, inserted, attempts, executed,
                errorLog, tursoRows, writerPc, writeResult>>

\* the state of the collection loop and of the services it calls
serviceVars == <<locationVars, cacheVars, writerVars>>

\* the state of the aggregator's callers and of the prune job
callerVars == <<repeatVars, collectorVars, pruneVars, serviceVars>>

\* the state outside processRideData and aggregateWaitTime
extensionVars == <<classifyVars, callerVars>>

vars == <<reconcileVars, aggregateVars, extensionVars>>

\* ------------------------------------------------- calculateConfidence
\* percentDiff <= k for percentDiff = (difference / average) * 100, with
\* average = sum / 2.  A zero divisor yields NaN or Infinity in the source,
\* for which every `<=` comparison is false.
PercentDiffAtMost(difference, sum, k) ==
  /\ sum # 0
  /\ 200 * difference <= k * sum

\* BUG VARIANT: exclusive breakpoints (`<` for `<=`).
ConfidenceEvalExclusive(q, t) ==
  IF q = Undefined /\ t = Undefined THEN [score |-> 0, dividedBy |-> NoDivision]
  ELSE IF q = Undefined \/ t = Undefined THEN [score |-> 5, dividedBy |-> NoDivision]
  ELSE LET difference == Abs(q - t)
           sum == q + t
       IN IF q = 0 /\ t = 0 THEN [score |-> 10, dividedBy |-> NoDivision]
          ELSE IF sum = 0
            THEN [score |-> IF difference = 0 THEN 10 ELSE 3, dividedBy |-> NoDivision]
          ELSE [score |->
                  IF 200 * difference < 10 * sum THEN 10
                  ELSE IF 200 * difference < 20 * sum THEN 9
                  ELSE IF 200 * difference < 30 * sum THEN 8
                  ELSE IF 200 * difference < 50 * sum THEN 6
                  ELSE 4,
                dividedBy |-> sum]

\* BUG VARIANT: no handling of a zero average before the division.
ConfidenceEvalNoZeroCase(q, t) ==
  IF q = Undefined /\ t = Undefined THEN [score |-> 0, dividedBy |-> NoDivision]
  ELSE IF q = Undefined \/ t = Undefined THEN [score |-> 5, dividedBy |-> NoDivision]
  ELSE LET difference == Abs(q - t)
           sum == q + t
       IN [score |->
             IF PercentDiffAtMost(difference, sum, 10) THEN 10
             ELSE IF PercentDiffAtMost(difference, sum, 20) THEN 9
             ELSE IF PercentDiffAtMost(difference, sum, 30) THEN 8
             ELSE IF PercentDiffAtMost(difference, sum, 50) THEN 6
             ELSE 4,
           dividedBy |-> sum]

\* BUG VARIANT: difference computed as |q + t|.
ConfidenceEvalSumDifference(q, t) ==
  IF q = Undefined /\ t = Undefined THEN [score |-> 0, dividedBy |-> NoDivision]
  ELSE IF q = Undefined \/ t = Undefined THEN [score |-> 5, dividedBy |-> NoDivision]
  ELSE LET difference == Abs(q + t)
           sum == q + t
       IN IF q = 0 /\ t = 0 THEN [score |-> 10, dividedBy |-> NoDivision]
          ELSE IF sum = 0
            THEN [score |-> IF difference = 0 THEN 10 ELSE 3, dividedBy |-> NoDivision]
          ELSE [score |->
                  IF PercentDiffAtMost(difference, sum, 10) THEN 10
                  ELSE IF PercentDiffAtMost(difference, sum, 20) THEN 9
                  ELSE IF PercentDiffAtMost(difference, sum, 30) THEN 8
                  ELSE IF PercentDiffAtMost(difference, sum, 50) THEN 6
                  ELSE 4,
                dividedBy |-> sum]

\* BUG VARIANT: one missing value is scored as no data.
ConfidenceEvalMissingIsNone(q, t) ==
  IF q = Undefined \/ t = Undefined THEN [score |-> 0, dividedBy |-> NoDivision]
  ELSE LET difference == Abs(q - t)
           sum == q + t
       IN IF q = 0 /\ t = 0 THEN [score |-> 10, dividedBy |-> NoDivision]
          ELSE [score |->
                  IF PercentDiffAtMost(difference, sum, 10) THEN 10
                  ELSE IF PercentDiffAtMost(difference, sum, 20) THEN 9
                  ELSE IF PercentDiffAtMost(difference, sum, 30) THEN 8
                  ELSE IF PercentDiffAtMost(difference, sum, 50) THEN 6
                  ELSE 4,
                dividedBy |-> sum]

\* BUG VARIANT: the average is floored to an integer, so waits of 0 and 1
\* take the `average === 0` branch.
ConfidenceEvalFlooredAverage(q, t) ==
  IF q = Undefined /\ t = Undefined THEN [score |-> 0, dividedBy |-> NoDivision]
  ELSE IF q = Undefined \/ t = Undefined THEN [score |-> 5, dividedBy |-> NoDivision]
  ELSE LET difference == Abs(q - t)
           sum == q + t
       IN IF q = 0 /\ t = 0 THEN [score |-> 10, dividedBy |-> NoDivision]
          ELSE IF sum \div 2 = 0
            THEN [score |-> IF difference = 0 THEN 10 ELSE 3, dividedBy |-> NoDivision]
          ELSE [score |->
                  IF PercentDiffAtMost(difference, sum, 10) THEN 10
                  ELSE IF PercentDiffAtMost(difference, sum, 20) THEN 9
                  ELSE IF PercentDiffAtMost(difference, sum, 30) THEN 8
                  ELSE IF PercentDiffAtMost(difference, sum, 50) THEN 6
                  ELSE 4,
                dividedBy |-> sum]

\* BUG VARIANT: waits more than 50% apart score 0.5, the single-source score.
ConfidenceEvalFarIsHalf(q, t) ==
  IF q = Undefined /\ t = Undefined THEN [score |-> 0, dividedBy |-> NoDivision]
  ELSE IF q = Undefined \/ t = Undefined THEN [score |-> 5, dividedBy |-> NoDivision]
  ELSE LET difference == Abs(q - t)
           sum == q + t
       IN IF q = 0 /\ t = 0 THEN [score |-> 10, dividedBy |-> NoDivision]
          ELSE IF sum = 0
            THEN [score |-> IF difference = 0 THEN 10 ELSE 3, dividedBy |-> NoDivision]
          ELSE [score |->
                  IF PercentDiffAtMost(difference, sum, 10) THEN 10
                  ELSE IF PercentDiffAtMost(difference, sum, 20) THEN 9
                  ELSE IF PercentDiffAtMost(difference, sum, 30) THEN 8
                  ELSE IF PercentDiffAtMost(difference, sum, 50) THEN 6
                  ELSE 5,
                dividedBy |-> sum]

\* BUG VARIANT: the difference is taken relative to the first wait, not to
\* the average of the two.
ConfidenceEvalRelativeToFirst(q, t) ==
  IF q = Undefined /\ t = Undefined THEN [score |-> 0, dividedBy |-> NoDivision]
  ELSE IF q = Undefined \/ t = Undefined THEN [score |-> 5, dividedBy |-> NoDivision]
  ELSE LET difference == Abs(q - t)
           sum == q + t
       IN IF q = 0 /\ t = 0 THEN [score |-> 10, dividedBy |-> NoDivision]
          ELSE IF sum = 0
            THEN [score |-> IF difference = 0 THEN 10 ELSE 3, dividedBy |-> NoDivision]
          ELSE [score |->
                  IF PercentDiffAtMost(difference, 2 * q, 10) THEN 10
                  ELSE IF PercentDiffAtMost(difference, 2 * q, 20) THEN 9
                  ELSE IF PercentDiffAtMost(difference, 2 * q, 30) THEN 8
                  ELSE IF PercentDiffAtMost(difference, 2 * q, 50) THEN 6
                  ELSE 4,
                dividedBy |-> sum]

\* calculateConfidence, evaluated statement by statement: the score in
\* tenths, and the sum (twice the average) the division of line 46 divided
\* by, NoDivision when that line was not reached.
ConfidenceEval(q, t) ==
  IF q = Undefined /\ t = Undefined THEN [score |-> 0, dividedBy |-> NoDivision]
  ELSE IF q = Undefined \/ t = Undefined THEN [score |-> 5, dividedBy |-> NoDivision]
  ELSE LET difference == Abs(q - t)
           sum == q + t
       IN IF q = 0 /\ t = 0 THEN [score |-> 10, dividedBy |-> NoDivision]
          ELSE IF sum = 0
            THEN [score |-> IF difference = 0 THEN 10 ELSE 3, dividedBy |-> NoDivision]
          ELSE [score |->
                  IF PercentDiffAtMost(difference, sum, 10) THEN 10
                  ELSE IF PercentDiffAtMost(difference, sum, 20) THEN 9
                  ELSE IF PercentDiffAtMost(difference, sum, 30) THEN 8
                  ELSE IF PercentDiffAtMost(difference, sum, 50) THEN 6
                  ELSE 4,
                dividedBy |-> sum]

calculateConfidence(q, t) == ConfidenceEval(q, t).score

\* ---------------------------------------------------- aggregateWaitTime
\* Math.round of hundredths / 100: the nearest integer, halves towards
\* +Infinity.
MathRoundHundredths(hundredths) == (hundredths + 50) \div 100

\* BUG VARIANT: Math.floor for Math.round.
aggregateWaitTimeFloor(q, t) ==
  LET confidence == calculateConfidence(q, t)
  IN IF q = Undefined /\ t = Undefined THEN [aggregated |-> 0, confidence |-> 0]
     ELSE IF q = Undefined THEN [aggregated |-> t, confidence |-> confidence]
     ELSE IF t = Undefined THEN [aggregated |-> q, confidence |-> confidence]
     ELSE [aggregated |-> (q * 55 + t * 45) \div 100, confidence |-> confidence]

\* BUG VARIANT: the weight is applied to a single source as well.
aggregateWaitTimeWeightedSingle(q, t) ==
  LET confidence == calculateConfidence(q, t)
  IN IF q = Undefined /\ t = Undefined THEN [aggregated |-> 0, confidence |-> 0]
     ELSE IF q = Undefined
       THEN [aggregated |-> MathRoundHundredths(t * 45), confidence |-> confidence]
     ELSE IF t = Undefined
       THEN [aggregated |-> MathRoundHundredths(q * 55), confidence |-> confidence]
     ELSE [aggregated |-> MathRoundHundredths(q * 55 + t * 45),
           confidence |-> confidence]

\* BUG VARIANT: the single-source branches return the other argument.
aggregateWaitTimeOtherArgument(q, t) ==
  LET confidence == calculateConfidence(q, t)
  IN IF q = Undefined /\ t = Undefined THEN [aggregated |-> 0, confidence |-> 0]
     ELSE IF q = Undefined THEN [aggregated |-> q, confidence |-> confidence]
     ELSE IF t = Undefined THEN [aggregated |-> t, confidence |-> confidence]
     ELSE [aggregated |-> MathRoundHundredths(q * 55 + t * 45),
           confidence |-> confidence]

aggregateWaitTime(q, t) ==
  LET confidence == calculateConfidence(q, t)
  IN IF q = Undefined /\ t = Undefined THEN [aggregated |-> 0, confidence |-> 0]
     ELSE IF q = Undefined THEN [aggregated |-> t, confidence |-> confidence]
     ELSE IF t = Undefined THEN [aggregated |-> q, confidence |-> confidence]
     ELSE [aggregated |-> MathRoundHundredths(q * 55 + t * 45),
           confidence |-> confidence]

\* ------------------------------------------------------------ snapshots
QueueTimesRides ==
  {[id |-> id, name |-> "Ride " \o ToString(id), wait_time |-> w, is_open |-> o] :
     id \in QueueTimesIds, w \in 0..MaxWaitTime, o \in BOOLEAN}

ThemeparksRides ==
  {[id |-> id, name |-> "Attraction " \o id, wait_time |-> w, is_open |-> o,
    single_rider_time |-> s] :
     id \in ThemeparksIds, w \in 0..MaxWaitTime, o \in BOOLEAN,
     s \in SingleRiderTimes}

DistinctIds(snapshot) ==
  \A m, n \in 1..Len(snapshot) : m # n => snapshot[m].id # snapshot[n].id

\* the snapshots of a park: every order of every subset of its rides
Snapshots(rides, idSet) ==
  {s \in UNION {[1..n -> rides] : n \in 0..Cardinality(idSet)} : DistinctIds(s)}

\* ride.id.toString()
IdString(ride) == ToString(ride.id)

\* the Map<string, string> built from the ride_mappings rows: any partial
\* function from Queue-Times id strings to ThemeParks.wiki ids
RideMappings ==
  UNION {[keys -> ThemeparksIds] :
           keys \in SUBSET {ToString(id) : id \in QueueTimesIds}}

\* rideMapping.get(key)
MapGet(map, key) == IF key \in DOMAIN map THEN map[key] ELSE NoMapping

\* themeparksData.find(r => r.id === themeparksId): the index of the first
\* match, 0 when there is none (or when themeparksId is falsy)
FindThemeparksRide(data, themeparksId) ==
  IF themeparksId = NoMapping \/ \A k \in 1..Len(data) : data[k].id # themeparksId
  THEN 0
  ELSE CHOOSE k \in 1..Len(data) :
         /\ data[k].id = themeparksId
         /\ \A m \in 1..(k - 1) : data[m].id # themeparksId

\* BUG VARIANT: isOpen is the Queue-Times flag alone.
QueueTimesReadingOwnFlag(ride, data, map) ==
  LET themeparksId == MapGet(map, IdString(ride))
      found == FindThemeparksRide(data, themeparksId)
      themeparksWait == IF found = 0 THEN Undefined ELSE data[found].wait_time
      agg == aggregateWaitTime(ride.wait_time, themeparksWait)
  IN [rideId |-> IdString(ride),
      rideName |-> ride.name,
      queueTimesWait |-> ride.wait_time,
      themeparksWait |-> themeparksWait,
      aggregatedWait |-> agg.aggregated,
      confidenceScore |-> agg.confidence,
      isOpen |-> ride.is_open,
      singleRiderTime |->
        IF found = 0 THEN Undefined ELSE data[found].single_rider_time]

\* BUG VARIANT: a mapped id that is not in the ThemeParks.wiki snapshot counts
\* as a ThemeParks.wiki wait of 0.
QueueTimesReadingAbsentAsZero(ride, data, map) ==
  LET themeparksId == MapGet(map, IdString(ride))
      found == FindThemeparksRide(data, themeparksId)
      themeparksWait == IF found # 0 THEN data[found].wait_time
                        ELSE IF themeparksId # NoMapping THEN 0
                        ELSE Undefined
      agg == aggregateWaitTime(ride.wait_time, themeparksWait)
  IN [rideId |-> IdString(ride),
      rideName |-> ride.name,
      queueTimesWait |-> ride.wait_time,
      themeparksWait |-> themeparksWait,
      aggregatedWait |-> agg.aggregated,
      confidenceScore |-> agg.confidence,
      isOpen |-> ride.is_open \/ (found # 0 /\ data[found].is_open),
      singleRiderTime |->
        IF found = 0 THEN Undefined ELSE data[found].single_rider_time]

\* the reading pushed by one iteration of the Queue-Times loop
QueueTimesReading(ride, data, map) ==
  LET themeparksId == MapGet(map, IdString(ride))
      found == FindThemeparksRide(data, themeparksId)
      themeparksWait == IF found = 0 THEN Undefined ELSE data[found].wait_time
      agg == aggregateWaitTime(ride.wait_time, themeparksWait)
  IN [rideId |-> IdString(ride),
      rideName |-> ride.name,
      queueTimesWait |-> ride.wait_time,
      themeparksWait |-> themeparksWait,
      aggregatedWait |-> agg.aggregated,
      confidenceScore |-> agg.confidence,
      isOpen |-> ride.is_open \/ (found # 0 /\ data[found].is_open),
      singleRiderTime |->
        IF found = 0 THEN Undefined ELSE data[found].single_rider_time]

\* BUG VARIANT: the ThemeParks.wiki loop drops single_rider_time.
ThemeparksReadingNoSingleRider(ride) ==
  LET agg == aggregateWaitTime(Undefined, ride.wait_time)
  IN [rideId |-> ride.id,
      rideName |-> ride.name,
      queueTimesWait |-> Undefined,
      themeparksWait |-> ride.wait_time,
      aggregatedWait |-> agg.aggregated,
      confidenceScore |-> agg.confidence,
      isOpen |-> ride.is_open,
      singleRiderTime |-> Undefined]

\* the reading pushed by one iteration of the ThemeParks.wiki loop
ThemeparksReading(ride) ==
  LET agg == aggregateWaitTime(Undefined, ride.wait_time)
  IN [rideId |-> ride.id,
      rideName |-> ride.name,
      queueTimesWait |-> Undefined,
      themeparksWait |-> ride.wait_time,
      aggregatedWait |-> agg.aggregated,
      confidenceScore |-> agg.confidence,
      isOpen |-> ride.is_open,
      singleRiderTime |-> ride.single_rider_time]

\* processRideData(queueTimesData, themeparksData, rideMapping) as one
\* function of its arguments: the readings of the Queue-Times loop followed by
\* the readings of the ThemeParks.wiki records the first loop did not mark
ProcessRideDataResult(qt, tp, map) ==
  LET marked == {IdString(qt[i]) : i \in 1..Len(qt)}
                  \cup ({MapGet(map, IdString(qt[i])) : i \in 1..Len(qt)}
                          \ {NoMapping})
      Unmarked(ride) == ride.id \notin marked
      remaining == SelectSeq(tp, Unmarked)
  IN [i \in 1..Len(qt) |-> QueueTimesReading(qt[i], tp, map)]
       \o [j \in 1..Len(remaining) |-> ThemeparksReading(remaining[j])]

\* ------------------------------------------------------ processRideData
\* `for (const ride of queueTimesData)` has a record left
InQueueTimesLoop ==
  /\ operation = "processRideData"
  /\ ~returned
  /\ qtIndex <= Len(queueTimesData)

\* BUG VARIANT: the second loop stops in front of its last record and never
\* leaves it, so the call does not return.
InThemeparksLoopStuckAtLast ==
  /\ operation = "processRideData"
  /\ ~returned
  /\ qtIndex > Len(queueTimesData)
  /\ tpIndex < Len(themeparksData)

\* the first loop is over and `for (const ride of themeparksData)` has a
\* record left
InThemeparksLoop ==
  /\ operation = "processRideData"
  /\ ~returned
  /\ qtIndex > Len(queueTimesData)
  /\ tpIndex <= Len(themeparksData)

\* both loops are over
AtReturn ==
  /\ operation = "processRideData"
  /\ ~returned
  /\ qtIndex > Len(queueTimesData)
  /\ tpIndex > Len(themeparksData)

\* BUG VARIANT: the matched ThemeParks.wiki id is not marked as processed.
ProcessQueueTimesRideNoMark ==
  /\ InQueueTimesLoop
  /\ LET ride == queueTimesData[qtIndex]
     IN /\ results' = Append(results,
                              QueueTimesReading(ride, themeparksData, rideMapping))
        /\ processedRides' = processedRides \cup {IdString(ride)}
  /\ qtIndex' = qtIndex + 1
  /\ UNCHANGED <<operation, queueTimesData, themeparksData, rideMapping, tpIndex, returned>>
  /\ UNCHANGED <<aggregateVars, extensionVars>>

\* one iteration of `for (const ride of queueTimesData)`
ProcessQueueTimesRide ==
  /\ InQueueTimesLoop
  /\ LET ride == queueTimesData[qtIndex]
         themeparksId == MapGet(rideMapping, IdString(ride))
     IN /\ results' = Append(results,
                              QueueTimesReading(ride, themeparksData, rideMapping))
        /\ processedRides' =
             processedRides \cup {IdString(ride)}
               \cup (IF themeparksId # NoMapping THEN {themeparksId} ELSE {})
  /\ qtIndex' = qtIndex + 1
  /\ UNCHANGED <<operation, queueTimesData, themeparksData, rideMapping, tpIndex, returned>>
  /\ UNCHANGED <<aggregateVars, extensionVars>>

\* BUG VARIANT: the ThemeParks.wiki loop ignores processedRides.
ProcessThemeparksRideAlways ==
  /\ InThemeparksLoop
  /\ results' = Append(results, ThemeparksReading(themeparksData[tpIndex]))
  /\ tpIndex' = tpIndex + 1
  /\ UNCHANGED <<operation, queueTimesData, themeparksData, rideMapping, processedRides,
                 qtIndex, returned>>
  /\ UNCHANGED <<aggregateVars, extensionVars>>

\* BUG VARIANT: the ThemeParks.wiki loop puts its reading in front (unshift).
ProcessThemeparksRideUnshift ==
  /\ InThemeparksLoop
  /\ LET ride == themeparksData[tpIndex]
     IN results' = IF ride.id \notin processedRides
                   THEN <<ThemeparksReading(ride)>> \o results
                   ELSE results
  /\ tpIndex' = tpIndex + 1
  /\ UNCHANGED <<operation, queueTimesData, themeparksData, rideMapping, processedRides,
                 qtIndex, returned>>
  /\ UNCHANGED <<aggregateVars, extensionVars>>

\* BUG VARIANT: the ThemeParks.wiki loop consults the mapping again and skips
\* every record that is the target of some entry.
ProcessThemeparksRideChecksMapping ==
  /\ InThemeparksLoop
  /\ LET ride == themeparksData[tpIndex]
     IN results' = IF /\ ride.id \notin processedRides
                      /\ \A key \in DOMAIN rideMapping : rideMapping[key] # ride.id
                   THEN Append(results, ThemeparksReading(ride))
                   ELSE results
  /\ tpIndex' = tpIndex + 1
  /\ UNCHANGED <<operation, queueTimesData, themeparksData, rideMapping, processedRides,
                 qtIndex, returned>>
  /\ UNCHANGED <<aggregateVars, extensionVars>>

\* one iteration of `for (const ride of themeparksData)`
ProcessThemeparksRide ==
  /\ InThemeparksLoop
  /\ LET ride == themeparksData[tpIndex]
     IN results' = IF ride.id \notin processedRides
                   THEN Append(results, ThemeparksReading(ride))
                   ELSE results
  /\ tpIndex' = tpIndex + 1
  /\ UNCHANGED <<operation, queueTimesData, themeparksData, rideMapping, processedRides,
                 qtIndex, returned>>
  /\ UNCHANGED <<aggregateVars, extensionVars>>

\* `return results`
ReturnResults ==
  /\ AtReturn
  /\ returned' = TRUE
  /\ UNCHANGED <<operation, queueTimesData, themeparksData, rideMapping, results,
                 processedRides, qtIndex, tpIndex>>
  /\ UNCHANGED <<aggregateVars, extensionVars>>

\* --------------------------------------------- one aggregateWaitTime call
AggregateValues == {Undefined} \cup 0..MaxAggregateWait

NoAggregate == [aggregated |-> 0, confidence |-> 0, dividedBy |-> NoDivision]

\* aggregator.aggregateWaitTime(queueTime, themeparksTime)
CallAggregateWaitTime ==
  /\ operation = "aggregateWaitTime"
  /\ ~aggregateDone
  /\ LET agg == aggregateWaitTime(queueTime, themeparksTime)
     IN aggregate' = [aggregated |-> agg.aggregated,
                      confidence |-> agg.confidence,
                      dividedBy |-> ConfidenceEval(queueTime, themeparksTime).dividedBy]
  /\ aggregateDone' = TRUE
  /\ UNCHANGED <<queueTime, themeparksTime>>
  /\ UNCHANGED <<reconcileVars, extensionVars>>

\* ---------------------------------------------------- getConfidenceLevel
\* the scores a caller can hand to getConfidenceLevel: 0.000 .. 1.000
ClassifierScores == 0..1000

NoLevel == [level |-> "none", description |-> "", icon |-> ""]

\* BUG VARIANT: exclusive boundaries (`>` for `>=`).
getConfidenceLevelExclusive(s) ==
  IF s > 800
  THEN [level |-> "high",
        description |-> "High confidence - multiple sources agree",
        icon |-> "check"]
  ELSE IF s > 600
  THEN [level |-> "medium",
        description |-> "Medium confidence - sources partially agree",
        icon |-> "question"]
  ELSE IF s > 0
  THEN [level |-> "low",
        description |-> "Low confidence - limited or conflicting data",
        icon |-> "warning"]
  ELSE [level |-> "none", description |-> "No data available", icon |-> "cross"]

\* getConfidenceLevel(score), the score in thousandths
getConfidenceLevel(s) ==
  IF s >= 800
  THEN [level |-> "high",
        description |-> "High confidence - multiple sources agree",
        icon |-> "check"]
  ELSE IF s >= 600
  THEN [level |-> "medium",
        description |-> "Medium confidence - sources partially agree",
        icon |-> "question"]
  ELSE IF s > 0
  THEN [level |-> "low",
        description |-> "Low confidence - limited or conflicting data",
        icon |-> "warning"]
  ELSE [level |-> "none", description |-> "No data available", icon |-> "cross"]

\* a confidence score of the aggregator (tenths) as getConfidenceLevel reads it
ScoreOfConfidence(confidence) == confidence * 100

\* aggregator.getConfidenceLevel(score)
CallGetConfidenceLevel ==
  /\ operation = "getConfidenceLevel"
  /\ ~classified
  /\ level' = getConfidenceLevel(score)
  /\ classified' = TRUE
  /\ UNCHANGED <<score, reconcileVars, aggregateVars, callerVars>>

\* ------------------------------------------- repeated processRideData
\* the arguments of repeated calls: open Queue-Times rides at the longest
\* wait, closed ThemeParks.wiki rides at wait 0, any mapping
RepeatInputs ==
  [queueTimesData :
     Snapshots({r \in QueueTimesRides : r.wait_time = MaxWaitTime /\ r.is_open},
               QueueTimesIds),
   themeparksData :
     Snapshots({r \in ThemeparksRides :
                  r.wait_time = 0 /\ ~r.is_open /\ r.single_rider_time = Undefined},
               ThemeparksIds),
   rideMapping : RideMappings]

CurrentInput ==
  [queueTimesData |-> queueTimesData, themeparksData |-> themeparksData,
   rideMapping |-> rideMapping]

\* BUG VARIANT: processedRides is a field of the instance, kept across calls.
EnterProcessRideDataKeepSeen(input) ==
  /\ queueTimesData' = input.queueTimesData
  /\ themeparksData' = input.themeparksData
  /\ rideMapping' = input.rideMapping
  /\ results' = <<>>
  /\ processedRides' = processedRides
  /\ qtIndex' = 1
  /\ tpIndex' = 1
  /\ returned' = FALSE

\* entry of a further processRideData call on the same instance: results and
\* processedRides are new locals
EnterProcessRideData(input) ==
  /\ queueTimesData' = input.queueTimesData
  /\ themeparksData' = input.themeparksData
  /\ rideMapping' = input.rideMapping
  /\ results' = <<>>
  /\ processedRides' = {}
  /\ qtIndex' = 1
  /\ tpIndex' = 1
  /\ returned' = FALSE

\* after the first call has returned, the instance is called with any
\* arguments
CallBetween ==
  /\ operation = "processRideData"
  /\ returned
  /\ phase = "first"
  /\ phase' = "between"
  /\ firstInput' = CurrentInput
  /\ firstResults' = results
  /\ \E input \in RepeatInputs : EnterProcessRideData(input)
  /\ UNCHANGED <<operation, aggregateVars, classifyVars, collectorVars, pruneVars, serviceVars>>

\* after that call has returned, the instance is called with the arguments
\* of the first call
CallRepeat ==
  /\ operation = "processRideData"
  /\ returned
  /\ phase = "between"
  /\ phase' = "repeat"
  /\ EnterProcessRideData(firstInput)
  /\ UNCHANGED <<operation, firstInput, firstResults, aggregateVars, classifyVars,
                 collectorVars, pruneVars, serviceVars>>

\* ------------------------------------------------- runEnhancedCollection
\* parseInt of a string that is no decimal numeral
NotANumber == -2

\* parseInt(ride.rideId): the number a Queue-Times rideId was printed from;
\* the ThemeParks.wiki ids start with no digit
ParseInt(rideId) ==
  IF \E id \in QueueTimesIds : ToString(id) = rideId
  THEN CHOOSE id \in QueueTimesIds : ToString(id) = rideId
  ELSE NotANumber

\* the Map built from the metadata rows: external_id -> id
MetaMaps ==
  {[key \in keys |-> "meta-" \o ToString(key)] : keys \in SUBSET QueueTimesIds}

\* metaMap.get(key), NoMapping for undefined
MetaGet(map, key) == IF key \in DOMAIN map THEN map[key] ELSE NoMapping

\* the `source` of the records of one location
SourceTag(qt, tp) ==
  IF Len(qt) > 0 /\ Len(tp) > 0 THEN "dual"
  ELSE IF Len(qt) > 0 THEN "queue_times"
  ELSE "themeparks"

\* the record pushed to waitTimeRecords for one reading (id, park_id and
\* recorded_at left out)
WaitTimeRecord(ride, metaId, qt, tp) ==
  [item_id |-> metaId,
   wait_time |-> ride.aggregatedWait,
   queue_times_wait |-> ride.queueTimesWait,
   themeparks_wait |-> ride.themeparksWait,
   confidence |-> ride.confidenceScore,
   is_open |-> ride.isOpen,
   source |-> SourceTag(qt, tp)]

\* `source: record.source || 'queue_times'` of writeWaitTimesToTurso
StoredSource(record) == IF record.source = "" THEN "queue_times" ELSE record.source

\* the snapshots a location's two fetches return
CollectedQueueTimes == Snapshots(QueueTimesRides, QueueTimesIds)
CollectedThemeparks ==
  Snapshots({r \in ThemeparksRides : r.single_rider_time = Undefined}, ThemeparksIds)

\* `if (queueTimesData.length > 0 || themeparksData.length > 0)` and the
\* processRideData call
AggregateLocation ==
  /\ operation = "runEnhancedCollection"
  /\ stage = "aggregate"
  /\ IF Len(queueTimesData) > 0 \/ Len(themeparksData) > 0
     THEN /\ results' = ProcessRideDataResult(queueTimesData, themeparksData, rideMapping)
          /\ stats' = [stats EXCEPT !.aggregated = @ + Len(results')]
          /\ stage' = "prepare"
     ELSE /\ stage' = "done"
          /\ UNCHANGED <<results, stats>>
  /\ UNCHANGED <<operation, queueTimesData, themeparksData, rideMapping, processedRides,
                 qtIndex, tpIndex, returned>>
  /\ UNCHANGED <<metaMap, waitTimeRecords, recordIndex>>
  /\ UNCHANGED <<aggregateVars, classifyVars, repeatVars, pruneVars, serviceVars>>

\* one iteration of `for (const ride of aggregatedData)`
PrepareWaitTimeRecord ==
  /\ operation = "runEnhancedCollection"
  /\ stage = "prepare"
  /\ recordIndex <= Len(results)
  /\ LET ride == results[recordIndex]
         metaId == MetaGet(metaMap, ParseInt(ride.rideId))
     IN IF metaId = NoMapping
        THEN UNCHANGED <<waitTimeRecords, stats>>
        ELSE /\ stats' =
                  IF ride.confidenceScore >= 8
                  THEN [stats EXCEPT !.highConfidence = @ + 1]
                  ELSE IF ride.confidenceScore >= 6
                  THEN [stats EXCEPT !.mediumConfidence = @ + 1]
                  ELSE [stats EXCEPT !.lowConfidence = @ + 1]
             /\ waitTimeRecords' =
                  Append(waitTimeRecords,
                         WaitTimeRecord(ride, metaId, queueTimesData, themeparksData))
  /\ recordIndex' = recordIndex + 1
  /\ UNCHANGED <<stage, metaMap>>
  /\ UNCHANGED <<reconcileVars, aggregateVars, classifyVars, repeatVars, pruneVars, serviceVars>>

\* the loop over aggregatedData is over
FinishLocation ==
  /\ operation = "runEnhancedCollection"
  /\ stage = "prepare"
  /\ recordIndex > Len(results)
  /\ stage' = "done"
  /\ UNCHANGED <<metaMap, waitTimeRecords, recordIndex, stats>>
  /\ UNCHANGED <<reconcileVars, aggregateVars, classifyVars, repeatVars, pruneVars, serviceVars>>

\* ------------------------------------------- prune-supabase-hot-window
\* the largest PRUNE_BATCH_SIZE, PRUNE_MAX_BATCHES and
\* PRUNE_DELETE_CHUNK_SIZE of the model (the script's floors of 100, 1 and
\* 25 scaled down to tables of a few rows)
MaxBatchSize == 2
MaxMaxBatches == 2
MaxDeleteChunkSize == 2

\* cutoffIso, as a point of the time scale of recorded_at
CutoffTime == 2

\* recorded_at of the rows: two times older than the cutoff and the cutoff
\* itself
RecordedAtTimes == 0..CutoffTime

\* the row ids of a table (truthy, as `filter(Boolean)` expects)
PruneRowIds == {1, 2, 3}

Tables == <<"ride_wait_time_history", "park_weather_history">>

\* the contents a table can have: id -> recorded_at for the rows it holds
TableContents == UNION {[held -> RecordedAtTimes] : held \in SUBSET PruneRowIds}

Min(a, b) == IF a <= b THEN a ELSE b

\* BUG VARIANT: `.lte('recorded_at', cutoffIso)` selects the rows at the
\* cutoff as well.
OlderIdsInclusive(rows) == {id \in DOMAIN rows : rows[id] <= CutoffTime}

\* the ids of the rows selected by `.lt('recorded_at', cutoffIso)`
OlderIds(rows) == {id \in DOMAIN rows : rows[id] < CutoffTime}

\* `.order('recorded_at', { ascending: true })`, equal times by id
RECURSIVE OldestFirst(_, _)
OldestFirst(rows, among) ==
  IF among = {} THEN <<>>
  ELSE LET first == CHOOSE x \in among :
                      \A y \in among :
                        rows[x] < rows[y] \/ (rows[x] = rows[y] /\ x <= y)
       IN <<first>> \o OldestFirst(rows, among \ {first})

\* the ids of one select: the oldest `limit` rows older than the cutoff
SelectIds(rows, limit) ==
  LET ordered == OldestFirst(rows, OlderIds(rows))
  IN SubSeq(ordered, 1, Min(limit, Len(ordered)))

\* ids.slice(idx, idx + deleteChunkSize), with idx counted from 1
Chunk(selected, from, size) ==
  {selected[k] : k \in from..Min(from + size - 1, Len(selected))}

\* the table without the rows of `.in('id', chunk)`
DeleteIds(rows, chunk) == [id \in DOMAIN rows \ chunk |-> rows[id]]

\* countOlderRows: the exact count of rows older than the cutoff
CountOlder(rows) == Cardinality(OlderIds(rows))

NoRecordedAt == -1

\* oldestRecordedAt: recorded_at of the oldest row, null for an empty table
OldestOf(rows) ==
  IF DOMAIN rows = {} THEN NoRecordedAt
  ELSE CHOOSE t \in RecordedAtTimes :
         /\ \E id \in DOMAIN rows : rows[id] = t
         /\ \A id \in DOMAIN rows : rows[id] >= t

CurrentTable == Tables[tableIndex]

\* a query failed: the error is thrown to the catch block of main
Throw(message) ==
  /\ thrown' = message
  /\ prunePc' = "catch"

\* insertCronLog(supabase, status, ...): the insert issued to cron_logs (its
\* own failure is swallowed)
InsertCronLog(status) == cronLogs' = Append(cronLogs, status)

\* await insertCronLog(supabase, 'started', ...) and entry of the first
\* pruneTableInBatches
LogStarted ==
  /\ operation = "pruneHotWindow"
  /\ prunePc = "start"
  /\ InsertCronLog("started")
  /\ prunePc' = "select"
  /\ UNCHANGED <<tableRows, batchSize, maxBatches, deleteChunkSize, tableIndex,
                 deletedRows, batches, hitBatchLimit, ids, idx, remainingOlderRows,
                 tableResults, thrown, prunedRows>>
  /\ UNCHANGED <<operation, reconcileVars, aggregateVars, classifyVars, repeatVars,
                 collectorVars, serviceVars>>

\* BUG VARIANT: the batch limit test is `batches > maxBatches`, one batch
\* too late.
SelectBatchLimitOffByOne ==
  /\ operation = "pruneHotWindow"
  /\ prunePc = "select"
  /\ IF batches > maxBatches
     THEN /\ hitBatchLimit' = TRUE
          /\ prunePc' = "count"
          /\ UNCHANGED <<ids, idx, thrown>>
     ELSE \/ /\ Throw("select batch failed")
             /\ UNCHANGED <<hitBatchLimit, ids, idx>>
          \/ /\ ids' = SelectIds(tableRows[CurrentTable], batchSize)
             /\ idx' = 1
             /\ prunePc' = IF ids' = <<>> THEN "count" ELSE "delete"
             /\ UNCHANGED <<hitBatchLimit, thrown>>
  /\ UNCHANGED <<tableRows, batchSize, maxBatches, deleteChunkSize, tableIndex,
                 deletedRows, batches, remainingOlderRows, tableResults, cronLogs,
                 prunedRows>>
  /\ UNCHANGED <<operation, reconcileVars, aggregateVars, classifyVars, repeatVars,
                 collectorVars, serviceVars>>

\* head of `while (true)`: the batch limit test and the select of one batch
SelectBatch ==
  /\ operation = "pruneHotWindow"
  /\ prunePc = "select"
  /\ IF batches >= maxBatches
     THEN /\ hitBatchLimit' = TRUE
          /\ prunePc' = "count"
          /\ UNCHANGED <<ids, idx, thrown>>
     ELSE \/ /\ Throw("select batch failed")
             /\ UNCHANGED <<hitBatchLimit, ids, idx>>
          \/ /\ ids' = SelectIds(tableRows[CurrentTable], batchSize)
             /\ idx' = 1
             /\ prunePc' = IF ids' = <<>> THEN "count" ELSE "delete"
             /\ UNCHANGED <<hitBatchLimit, thrown>>
  /\ UNCHANGED <<tableRows, batchSize, maxBatches, deleteChunkSize, tableIndex,
                 deletedRows, batches, remainingOlderRows, tableResults, cronLogs,
                 prunedRows>>
  /\ UNCHANGED <<operation, reconcileVars, aggregateVars, classifyVars, repeatVars,
                 collectorVars, serviceVars>>

\* one iteration of the chunk loop: the delete of one chunk of the batch, and
\* `batches += 1` after the last chunk
DeleteChunk ==
  /\ operation = "pruneHotWindow"
  /\ prunePc = "delete"
  /\ \/ /\ Throw("delete batch failed")
        /\ UNCHANGED <<tableRows, deletedRows, batches, idx, prunedRows>>
     \/ LET chunk == Chunk(ids, idx, deleteChunkSize)
            rows == tableRows[CurrentTable]
            count == Cardinality(chunk \cap DOMAIN rows)
        IN /\ tableRows' = [tableRows EXCEPT ![CurrentTable] = DeleteIds(rows, chunk)]
           /\ prunedRows' = prunedRows \cup
                              {<<CurrentTable, id, rows[id]>> : id \in chunk \cap DOMAIN rows}
           /\ deletedRows' = deletedRows + count
           /\ idx' = idx + deleteChunkSize
           /\ IF idx' > Len(ids)
              THEN /\ batches' = batches + 1
                   /\ prunePc' = "select"
              ELSE UNCHANGED <<batches, prunePc>>
           /\ UNCHANGED thrown
  /\ UNCHANGED <<batchSize, maxBatches, deleteChunkSize, tableIndex, hitBatchLimit, ids,
                 remainingOlderRows, tableResults, cronLogs>>
  /\ UNCHANGED <<operation, reconcileVars, aggregateVars, classifyVars, repeatVars,
                 collectorVars, serviceVars>>

\* const remainingOlderRows = await countOlderRows(supabase, table, cutoffIso)
CountOlderRows ==
  /\ operation = "pruneHotWindow"
  /\ prunePc = "count"
  /\ \/ /\ Throw("count older rows failed")
        /\ UNCHANGED remainingOlderRows
     \/ /\ remainingOlderRows' = CountOlder(tableRows[CurrentTable])
        /\ prunePc' = "oldest"
        /\ UNCHANGED thrown
  /\ UNCHANGED <<tableRows, batchSize, maxBatches, deleteChunkSize, tableIndex,
                 deletedRows, batches, hitBatchLimit, ids, idx, tableResults, cronLogs,
                 prunedRows>>
  /\ UNCHANGED <<operation, reconcileVars, aggregateVars, classifyVars, repeatVars,
                 collectorVars, serviceVars>>

\* const oldestRemainingRecordedAt = await oldestRecordedAt(supabase, table),
\* the return of pruneTableInBatches, tableResults.push(result) and the entry
\* of pruneTableInBatches for the next table
OldestRecordedAt ==
  /\ operation = "pruneHotWindow"
  /\ prunePc = "oldest"
  /\ \/ /\ Throw("oldest query failed")
        /\ UNCHANGED <<tableIndex, deletedRows, batches, hitBatchLimit, ids, idx,
                       remainingOlderRows, tableResults>>
     \/ /\ tableResults' =
             Append(tableResults,
                    [table |-> CurrentTable,
                     deletedRows |-> deletedRows,
                     batches |-> batches,
                     remainingOlderRows |-> remainingOlderRows,
                     oldestRemainingRecordedAt |-> OldestOf(tableRows[CurrentTable]),
                     hitBatchLimit |-> hitBatchLimit])
        /\ IF tableIndex < Len(Tables)
           THEN /\ tableIndex' = tableIndex + 1
                /\ prunePc' = "select"
           ELSE /\ prunePc' = "summary"
                /\ UNCHANGED tableIndex
        /\ deletedRows' = 0
        /\ batches' = 0
        /\ hitBatchLimit' = FALSE
        /\ ids' = <<>>
        /\ idx' = 1
        /\ remainingOlderRows' = 0
        /\ UNCHANGED thrown
  /\ UNCHANGED <<tableRows, batchSize, maxBatches, deleteChunkSize, cronLogs, prunedRows>>
  /\ UNCHANGED <<operation, reconcileVars, aggregateVars, classifyVars, repeatVars,
                 collectorVars, serviceVars>>

\* tableResults.some(r => r.remainingOlderRows > 0)
HasRemainingOlder ==
  \E k \in 1..Len(tableResults) : tableResults[k].remainingOlderRows > 0

\* BUG VARIANT: the summary logs 'completed' whatever remains.
SummarizeAlwaysCompleted ==
  /\ operation = "pruneHotWindow"
  /\ prunePc = "summary"
  /\ InsertCronLog("completed")
  /\ prunePc' = "done"
  /\ UNCHANGED thrown
  /\ UNCHANGED <<tableRows, batchSize, maxBatches, deleteChunkSize, tableIndex,
                 deletedRows, batches, hitBatchLimit, ids, idx, remainingOlderRows,
                 tableResults, prunedRows>>
  /\ UNCHANGED <<operation, reconcileVars, aggregateVars, classifyVars, repeatVars,
                 collectorVars, serviceVars>>

\* the summary, the report file and the terminal cron log of the try block:
\* 'failed' and a thrown error when rows remain, else 'completed'
Summarize ==
  /\ operation = "pruneHotWindow"
  /\ prunePc = "summary"
  /\ IF HasRemainingOlder
     THEN /\ InsertCronLog("failed")
          /\ Throw("Rows older than retention window remain after prune run")
     ELSE /\ InsertCronLog("completed")
          /\ prunePc' = "done"
          /\ UNCHANGED thrown
  /\ UNCHANGED <<tableRows, batchSize, maxBatches, deleteChunkSize, tableIndex,
                 deletedRows, batches, hitBatchLimit, ids, idx, remainingOlderRows,
                 tableResults, prunedRows>>
  /\ UNCHANGED <<operation, reconcileVars, aggregateVars, classifyVars, repeatVars,
                 collectorVars, serviceVars>>

\* the catch block of main: insertCronLog 'failed', rethrow, process.exit(1)
CatchError ==
  /\ operation = "pruneHotWindow"
  /\ prunePc = "catch"
  /\ InsertCronLog("failed")
  /\ prunePc' = "exit1"
  /\ UNCHANGED <<tableRows, batchSize, maxBatches, deleteChunkSize, tableIndex,
                 deletedRows, batches, hitBatchLimit, ids, idx, remainingOlderRows,
                 tableResults, thrown, prunedRows>>
  /\ UNCHANGED <<operation, reconcileVars, aggregateVars, classifyVars, repeatVars,
                 collectorVars, serviceVars>>

\* ------------------------------------------------------ collection loop
\* The collection loop over the locations (runCollection and
\* runEnhancedCollection): one try block per location, the writes after
\* the loop.

MaxLocations == 2
MaxQueueItems == 2

\* a location has coordinates or not, an external id or not
LocationRows == [lat : BOOLEAN, external_id : BOOLEAN]

LocationLists == UNION {[1..n -> LocationRows] : n \in 0..MaxLocations}

NoLoopStats == [locations |-> 0, processed |-> 0, weather |-> 0, queues |-> 0,
                errors |-> 0, stored_weather |-> 0, stored_wait_times |-> 0]

\* the records of one location's items that the loop pushes: the first
\* `kept` items (the others have no metadata row)
ItemRecords(i, kept) == [k \in 1..kept |-> <<i, k>>]

\* `stats.locations = locations.length` and the entry of the loop
StartLoop ==
  /\ operation = "runCollection"
  /\ collectPc = "start"
  /\ loopStats' = [loopStats EXCEPT !.locations = Len(locations)]
  /\ locationIndex' = 1
  /\ collectPc' = IF Len(locations) = 0 THEN "write" ELSE "weather"
  /\ UNCHANGED <<locations, weatherRecords, queueRecords, outcomes, tursoWeather,
                 tursoWaitTimes>>
  /\ UNCHANGED <<reconcileVars, aggregateVars, classifyVars, repeatVars,
                 collectorVars, pruneVars, cacheVars, writerVars>>

\* the weather block of the try body: collectWeather answers with data or
\* null; a statement of the block may throw before the record is pushed
CollectWeather ==
  /\ operation = "runCollection"
  /\ collectPc = "weather"
  /\ \E answer \in {"data", "null", "throw"} :
       /\ answer = "data" => locations[locationIndex].lat
       /\ IF answer = "data"
            THEN /\ weatherRecords' = Append(weatherRecords, locationIndex)
                 /\ loopStats' = [loopStats EXCEPT !.weather = @ + 1]
            ELSE UNCHANGED <<weatherRecords, loopStats>>
       /\ collectPc' = IF answer = "throw" THEN "catch" ELSE "queues"
  /\ UNCHANGED <<locations, locationIndex, queueRecords, outcomes, tursoWeather,
                 tursoWaitTimes>>
  /\ UNCHANGED <<reconcileVars, aggregateVars, classifyVars, repeatVars,
                 collectorVars, pruneVars, cacheVars, writerVars>>

\* the queue block of the try body: the collection answers with `items`
\* items (none for null or an empty list), `kept` of them have a metadata
\* row; a throw leaves the records pushed before it
CollectQueues ==
  /\ operation = "runCollection"
  /\ collectPc = "queues"
  /\ \E items \in 0..MaxQueueItems, pushed \in 0..MaxQueueItems, throws \in BOOLEAN :
       /\ pushed <= items
       /\ items > 0 => locations[locationIndex].external_id
       /\ loopStats' = [loopStats EXCEPT !.queues = @ + items]
       /\ queueRecords' = queueRecords \o ItemRecords(locationIndex, pushed)
       /\ collectPc' = IF throws THEN "catch" ELSE "processed"
  /\ UNCHANGED <<locations, locationIndex, weatherRecords, outcomes, tursoWeather,
                 tursoWaitTimes>>
  /\ UNCHANGED <<reconcileVars, aggregateVars, classifyVars, repeatVars,
                 collectorVars, pruneVars, cacheVars, writerVars>>

\* the position after the iteration of location i
AfterLocation(i) == IF i < Len(locations) THEN "weather" ELSE "write"

\* the end of the try body: `stats.processed++`
CountProcessed ==
  /\ operation = "runCollection"
  /\ collectPc = "processed"
  /\ loopStats' = [loopStats EXCEPT !.processed = @ + 1]
  /\ outcomes' = Append(outcomes, "WQ")
  /\ locationIndex' = locationIndex + 1
  /\ collectPc' = AfterLocation(locationIndex)
  /\ UNCHANGED <<locations, weatherRecords, queueRecords, tursoWeather, tursoWaitTimes>>
  /\ UNCHANGED <<reconcileVars, aggregateVars, classifyVars, repeatVars,
                 collectorVars, pruneVars, cacheVars, writerVars>>

\* BUG VARIANT: the catch block counts the error and leaves the loop.
CatchLocationErrorAborts ==
  /\ operation = "runCollection"
  /\ collectPc = "catch"
  /\ loopStats' = [loopStats EXCEPT !.errors = @ + 1]
  /\ outcomes' = Append(outcomes, "ERROR")
  /\ locationIndex' = locationIndex + 1
  /\ collectPc' = "write"
  /\ UNCHANGED <<locations, weatherRecords, queueRecords, tursoWeather, tursoWaitTimes>>
  /\ UNCHANGED <<reconcileVars, aggregateVars, classifyVars, repeatVars,
                 collectorVars, pruneVars, cacheVars, writerVars>>

\* the catch block of the iteration: `stats.errors++`
CatchLocationError ==
  /\ operation = "runCollection"
  /\ collectPc = "catch"
  /\ loopStats' = [loopStats EXCEPT !.errors = @ + 1]
  /\ outcomes' = Append(outcomes, "ERROR")
  /\ locationIndex' = locationIndex + 1
  /\ collectPc' = AfterLocation(locationIndex)
  /\ UNCHANGED <<locations, weatherRecords, queueRecords, tursoWeather, tursoWaitTimes>>
  /\ UNCHANGED <<reconcileVars, aggregateVars, classifyVars, repeatVars,
                 collectorVars, pruneVars, cacheVars, writerVars>>

\* the writes after the loop: each list that is not empty is handed to its
\* writer, which reports how many records it inserted
WriteToTurso ==
  /\ operation = "runCollection"
  /\ collectPc = "write"
  /\ tursoWeather' = weatherRecords
  /\ tursoWaitTimes' = queueRecords
  /\ \E insertedWeather \in 0..Len(weatherRecords),
        insertedWaitTimes \in 0..Len(queueRecords) :
       loopStats' = [loopStats EXCEPT !.stored_weather = insertedWeather,
                                      !.stored_wait_times = insertedWaitTimes]
  /\ collectPc' = "exit0"
  /\ UNCHANGED <<locations, locationIndex, weatherRecords, queueRecords, outcomes>>
  /\ UNCHANGED <<reconcileVars, aggregateVars, classifyVars, repeatVars,
                 collectorVars, pruneVars, cacheVars, writerVars>>

\* ----------------------------------------------------- ThemeParksWikiClient
\* getParkWaitTimes and clearCache. The clock counts in units of 150000 ms.

MaxClock == 4

\* cacheDuration, 5 * 60 * 1000 ms, in clock units of 150000 ms
CacheDuration == 2

ParkIds == {"park1", "park2"}

\* the bodies a successful response may carry
Payloads == {"v1", "v2"}

\* what an awaited fetch may come to: an OK response, a 404, another non-OK
\* status, or a thrown error (fetch or response.json() rejecting)
FetchOutcomes == {"ok", "404", "other", "throw"}

NoEntry == [data |-> "none", timestamp |-> -1]

Null == "null"

\* `data.liveData || []` of the live endpoint
LiveData(payload) == <<"live", payload>>

\* the ATTRACTION and SHOW children of the alternative endpoint
ChildAttractions(payload) == <<"children", payload>>

\* BUG VARIANT: `<=` for `<`, an entry of exactly cacheDuration is fresh.
IsFreshNotStrict(entry, time) == entry # NoEntry /\ time - entry.timestamp <= CacheDuration

\* `cached && Date.now() - cached.timestamp < this.cacheDuration`
IsFresh(entry, time) == entry # NoEntry /\ time - entry.timestamp < CacheDuration

\* time passes
Tick ==
  /\ operation = "getParkWaitTimes"
  /\ now < MaxClock
  /\ now' = now + 1
  /\ UNCHANGED <<cache, clientPc, parkId, cached, checkedAt, responses, fetches,
                 stores, callResult, clearedBefore, clearedSince>>
  /\ UNCHANGED <<reconcileVars, aggregateVars, classifyVars, repeatVars,
                 collectorVars, pruneVars, locationVars, writerVars>>

\* entry of getParkWaitTimes(id) up to the first await: the cached value is
\* returned, or the live endpoint is fetched
EnterGetParkWaitTimes(id) ==
  /\ operation = "getParkWaitTimes"
  /\ clientPc \in {"idle", "returned"}
  /\ parkId' = id
  /\ cached' = cache[id]
  /\ checkedAt' = now
  /\ responses' = <<>>
  /\ stores' = 0
  /\ clearedBefore' = clearedSince
  /\ clearedSince' = "none"
  /\ IF IsFresh(cache[id], now)
       THEN /\ callResult' = cache[id].data
            /\ fetches' = 0
            /\ clientPc' = "returned"
       ELSE /\ callResult' = Null
            /\ fetches' = 1
            /\ clientPc' = "live"
  /\ UNCHANGED <<cache, now>>
  /\ UNCHANGED <<reconcileVars, aggregateVars, classifyVars, repeatVars,
                 collectorVars, pruneVars, locationVars, writerVars>>

CallGetParkWaitTimes == \E id \in ParkIds : EnterGetParkWaitTimes(id)

\* `this.cache.set(cacheKey, { data: attractions, timestamp: Date.now() })`
\* and `return attractions`
StoreAndReturn(attractions) ==
  /\ cache' = [cache EXCEPT ![parkId] = [data |-> attractions, timestamp |-> now]]
  /\ stores' = stores + 1
  /\ callResult' = attractions
  /\ clientPc' = "returned"

\* `return null`, from the non-OK branch or from the catch block
ReturnNull ==
  /\ callResult' = Null
  /\ clientPc' = "returned"
  /\ UNCHANGED <<cache, stores>>

\* the live endpoint has answered
LiveResponse ==
  /\ operation = "getParkWaitTimes"
  /\ clientPc = "live"
  /\ \E outcome \in FetchOutcomes :
       /\ responses' = Append(responses, outcome)
       /\ CASE outcome = "ok" ->
                 /\ \E payload \in Payloads : StoreAndReturn(LiveData(payload))
                 /\ UNCHANGED fetches
            [] outcome = "404" ->
                 /\ fetches' = fetches + 1
                 /\ clientPc' = "children"
                 /\ UNCHANGED <<cache, stores, callResult>>
            [] OTHER ->
                 /\ ReturnNull
                 /\ UNCHANGED fetches
  /\ UNCHANGED <<now, parkId, cached, checkedAt, clearedBefore, clearedSince>>
  /\ UNCHANGED <<reconcileVars, aggregateVars, classifyVars, repeatVars,
                 collectorVars, pruneVars, locationVars, writerVars>>

\* the alternative endpoint, tried after a 404, has answered
ChildrenResponse ==
  /\ operation = "getParkWaitTimes"
  /\ clientPc = "children"
  /\ \E outcome \in FetchOutcomes :
       /\ responses' = Append(responses, outcome)
       /\ IF outcome = "ok"
            THEN \E payload \in Payloads : StoreAndReturn(ChildAttractions(payload))
            ELSE ReturnNull
  /\ UNCHANGED <<now, parkId, cached, checkedAt, fetches, clearedBefore,
                 clearedSince>>
  /\ UNCHANGED <<reconcileVars, aggregateVars, classifyVars, repeatVars,
                 collectorVars, pruneVars, locationVars, writerVars>>

\* the call in progress is waiting for a fetch
InFlight == clientPc \in {"live", "children"}

\* clearCache(), from any task: between two calls or while a call awaits
ClearCache ==
  /\ operation = "getParkWaitTimes"
  /\ cache' = [id \in ParkIds |-> NoEntry]
  /\ clearedSince' = IF InFlight THEN "inFlight" ELSE "betweenCalls"
  /\ UNCHANGED <<now, clientPc, parkId, cached, checkedAt, responses, fetches,
                 stores, callResult, clearedBefore>>
  /\ UNCHANGED <<reconcileVars, aggregateVars, classifyVars, repeatVars,
                 collectorVars, pruneVars, locationVars, writerVars>>

\* ------------------------------------------------------------ Turso writers
\* writeWaitTimesToTurso and writeWeatherToTurso: one try block per record.

MaxRecords == 3

Writers == {"writeWaitTimesToTurso", "writeWeatherToTurso"}

RecordIds == {"r1", "r2"}

RecordLists == UNION {[1..n -> RecordIds] : n \in 0..MaxRecords}

\* the table a writer inserts into
TableOf(w) ==
  IF w = "writeWaitTimesToTurso" THEN "ride_wait_time_history" ELSE "park_weather_history"

NoWriteResult == [inserted |-> -1, total |-> -1]

\* what the try block of a record may come to: the insert resolves, the
\* insert rejects, or a statement before it throws
AttemptOutcomes == {"resolved", "rejected", "threwBefore"}

\* `const turso = getTursoClient()`: throws without credentials
GetTursoClient ==
  /\ operation = "writeToTurso"
  /\ writerPc = "start"
  /\ writerPc' = IF credentials THEN "loop" ELSE "thrown"
  /\ UNCHANGED <<writer, credentials, records, recordPos, inserted, attempts, executed,
                 errorLog, tursoRows, writeResult>>
  /\ UNCHANGED <<reconcileVars, aggregateVars, classifyVars, repeatVars,
                 collectorVars, pruneVars, locationVars, cacheVars>>

\* BUG VARIANT: the catch block logs the error and ends the loop.
AttemptRecordAbortsOnError ==
  /\ operation = "writeToTurso"
  /\ writerPc = "loop"
  /\ recordPos <= Len(records)
  /\ attempts' = Append(attempts, recordPos)
  /\ \E outcome \in AttemptOutcomes :
       IF outcome = "resolved"
         THEN /\ tursoRows' = [tursoRows EXCEPT ![TableOf(writer)] = @ \cup {records[recordPos]}]
              /\ executed' = Append(executed, recordPos)
              /\ inserted' = inserted + 1
              /\ recordPos' = recordPos + 1
              /\ UNCHANGED errorLog
         ELSE /\ errorLog' = Append(errorLog, recordPos)
              /\ recordPos' = Len(records) + 1
              /\ UNCHANGED <<tursoRows, executed, inserted>>
  /\ UNCHANGED <<writer, credentials, records, writerPc, writeResult>>
  /\ UNCHANGED <<reconcileVars, aggregateVars, classifyVars, repeatVars,
                 collectorVars, pruneVars, locationVars, cacheVars>>

\* one iteration of the record loop: the try block with its INSERT OR
\* REPLACE and `inserted++`, or the catch block with its console.error
AttemptRecord ==
  /\ operation = "writeToTurso"
  /\ writerPc = "loop"
  /\ recordPos <= Len(records)
  /\ attempts' = Append(attempts, recordPos)
  /\ \E outcome \in AttemptOutcomes :
       IF outcome = "resolved"
         THEN /\ tursoRows' = [tursoRows EXCEPT ![TableOf(writer)] = @ \cup {records[recordPos]}]
              /\ executed' = Append(executed, recordPos)
              /\ inserted' = inserted + 1
              /\ UNCHANGED errorLog
         ELSE /\ errorLog' = Append(errorLog, recordPos)
              /\ UNCHANGED <<tursoRows, executed, inserted>>
  /\ recordPos' = recordPos + 1
  /\ UNCHANGED <<writer, credentials, records, writerPc, writeResult>>
  /\ UNCHANGED <<reconcileVars, aggregateVars, classifyVars, repeatVars,
                 collectorVars, pruneVars, locationVars, cacheVars>>

\* `return { inserted, total: records.length }`
ReturnWriteResult ==
  /\ operation = "writeToTurso"
  /\ writerPc = "loop"
  /\ recordPos > Len(records)
  /\ writeResult' = [inserted |-> inserted, total |-> Len(records)]
  /\ writerPc' = "returned"
  /\ UNCHANGED <<writer, credentials, records, recordPos, inserted, attempts, executed,
                 errorLog, tursoRows>>
  /\ UNCHANGED <<reconcileVars, aggregateVars, classifyVars, repeatVars,
                 collectorVars, pruneVars, locationVars, cacheVars>>

\* ------------------------------------------------------- specifications
\* no processRideData call in progress
NoReconcile ==
  /\ queueTimesData = <<>>
  /\ themeparksData = <<>>
  /\ rideMapping = <<>>
  /\ results = <<>>
  /\ processedRides = {}
  /\ qtIndex = 1
  /\ tpIndex = 1
  /\ returned = TRUE

\* no aggregateWaitTime call in progress
NoAggregateCall ==
  /\ queueTime = Undefined
  /\ themeparksTime = Undefined
  /\ aggregate = NoAggregate
  /\ aggregateDone = TRUE

\* no getConfidenceLevel call in progress
NoClassify ==
  /\ score = 0
  /\ level = NoLevel
  /\ classified = TRUE

NoInput == [queueTimesData |-> <<>>, themeparksData |-> <<>>, rideMapping |-> <<>>]

\* the running processRideData call is the first of its instance
NoRepeat ==
  /\ phase = "first"
  /\ firstInput = NoInput
  /\ firstResults = <<>>

NoStats == [aggregated |-> 0, highConfidence |-> 0, mediumConfidence |-> 0,
            lowConfidence |-> 0]

\* no collection run in progress
NoCollector ==
  /\ stage = "idle"
  /\ metaMap = <<>>
  /\ waitTimeRecords = <<>>
  /\ recordIndex = 1
  /\ stats = NoStats

\* no prune run in progress
NoPrune ==
  /\ prunePc = "idle"
  /\ tableRows = <<>>
  /\ batchSize = 1
  /\ maxBatches = 1
  /\ deleteChunkSize = 1
  /\ tableIndex = 1
  /\ deletedRows = 0
  /\ batches = 0
  /\ hitBatchLimit = FALSE
  /\ ids = <<>>
  /\ idx = 1
  /\ remainingOlderRows = 0
  /\ tableResults = <<>>
  /\ cronLogs = <<>>
  /\ thrown = ""
  /\ prunedRows = {}

\* no collection loop in progress
NoLocations ==
  /\ locations = <<>>
  /\ locationIndex = 1
  /\ collectPc = "idle"
  /\ loopStats = NoLoopStats
  /\ weatherRecords = <<>>
  /\ queueRecords = <<>>
  /\ outcomes = <<>>
  /\ tursoWeather = <<>>
  /\ tursoWaitTimes = <<>>

\* no getParkWaitTimes call and an empty cache
NoCache ==
  /\ cache = [id \in ParkIds |-> NoEntry]
  /\ now = 0
  /\ clientPc = "idle"
  /\ parkId = ""
  /\ cached = NoEntry
  /\ checkedAt = 0
  /\ responses = <<>>
  /\ fetches = 0
  /\ stores = 0
  /\ callResult = Null
  /\ clearedBefore = "none"
  /\ clearedSince = "none"

\* no writer call in progress
NoWriter ==
  /\ writer = ""
  /\ credentials = FALSE
  /\ records = <<>>
  /\ recordPos = 1
  /\ inserted = 0
  /\ attempts = <<>>
  /\ executed = <<>>
  /\ errorLog = <<>>
  /\ tursoRows = <<>>
  /\ writerPc = "idle"
  /\ writeResult = NoWriteResult

\* the collection loop and the services it calls are not modelled
NoServices == NoLocations /\ NoCache /\ NoWriter

\* the callers of the aggregator are not modelled
NoCallers == NoRepeat /\ NoCollector /\ NoPrune /\ NoServices

\* entry of processRideData(queueTimesData, themeparksData, rideMapping)
InitProcessRideData ==
  /\ operation = "processRideData"
  /\ queueTimesData \in Snapshots(QueueTimesRides, QueueTimesIds)
  /\ themeparksData \in Snapshots(ThemeparksRides, ThemeparksIds)
  /\ rideMapping \in RideMappings
  /\ results = <<>>
  /\ processedRides = {}
  /\ qtIndex = 1
  /\ tpIndex = 1
  /\ returned = FALSE
  /\ NoAggregateCall
  /\ NoClassify
  /\ NoCallers

\* entry of aggregateWaitTime(queueTime, themeparksTime)
InitAggregateWaitTime ==
  /\ operation = "aggregateWaitTime"
  /\ queueTime \in AggregateValues
  /\ themeparksTime \in AggregateValues
  /\ aggregate = NoAggregate
  /\ aggregateDone = FALSE
  /\ NoReconcile
  /\ NoClassify
  /\ NoCallers

\* entry of getConfidenceLevel(score)
InitGetConfidenceLevel ==
  /\ operation = "getConfidenceLevel"
  /\ score \in ClassifierScores
  /\ level = NoLevel
  /\ classified = FALSE
  /\ NoReconcile
  /\ NoAggregateCall
  /\ NoCallers

\* the exported operations of the aggregator: a call of processRideData on
\* any pair of snapshots and mapping, a call of aggregateWaitTime on any
\* pair of optional wait times, or a call of getConfidenceLevel on any score
Init == InitProcessRideData \/ InitAggregateWaitTime \/ InitGetConfidenceLevel

Next ==
  \/ ProcessQueueTimesRide
  \/ ProcessThemeparksRide
  \/ ReturnResults
  \/ CallAggregateWaitTime
  \/ CallGetConfidenceLevel

Spec == Init /\ [][Next]_vars

\* three processRideData calls on one instance: any arguments, any other
\* arguments, the first arguments again
InitRepeat ==
  /\ operation = "processRideData"
  /\ \E input \in RepeatInputs :
       /\ queueTimesData = input.queueTimesData
       /\ themeparksData = input.themeparksData
       /\ rideMapping = input.rideMapping
  /\ results = <<>>
  /\ processedRides = {}
  /\ qtIndex = 1
  /\ tpIndex = 1
  /\ returned = FALSE
  /\ NoAggregateCall
  /\ NoClassify
  /\ NoRepeat
  /\ NoCollector
  /\ NoPrune
  /\ NoServices

NextRepeat ==
  \/ ProcessQueueTimesRide
  \/ ProcessThemeparksRide
  \/ ReturnResults
  \/ CallBetween
  \/ CallRepeat

SpecRepeat == InitRepeat /\ [][NextRepeat]_vars

\* the collector at the aggregation of one location, its two snapshots
\* fetched
InitCollector ==
  /\ operation = "runEnhancedCollection"
  /\ queueTimesData \in CollectedQueueTimes
  /\ themeparksData \in CollectedThemeparks
  /\ rideMapping \in RideMappings
  /\ metaMap \in MetaMaps
  /\ results = <<>>
  /\ processedRides = {}
  /\ qtIndex = 1
  /\ tpIndex = 1
  /\ returned = TRUE
  /\ stage = "aggregate"
  /\ waitTimeRecords = <<>>
  /\ recordIndex = 1
  /\ stats = NoStats
  /\ NoAggregateCall
  /\ NoClassify
  /\ NoRepeat
  /\ NoPrune
  /\ NoServices

NextCollector ==
  \/ AggregateLocation
  \/ PrepareWaitTimeRecord
  \/ FinishLocation

SpecCollector == InitCollector /\ [][NextCollector]_vars

\* a prune run at the start of main, on any contents of the two tables
InitPrune ==
  /\ operation = "pruneHotWindow"
  /\ prunePc = "start"
  /\ tableRows \in [{Tables[k] : k \in 1..Len(Tables)} -> TableContents]
  /\ batchSize \in 1..MaxBatchSize
  /\ maxBatches \in 1..MaxMaxBatches
  /\ deleteChunkSize \in 1..MaxDeleteChunkSize
  /\ tableIndex = 1
  /\ deletedRows = 0
  /\ batches = 0
  /\ hitBatchLimit = FALSE
  /\ ids = <<>>
  /\ idx = 1
  /\ remainingOlderRows = 0
  /\ tableResults = <<>>
  /\ cronLogs = <<>>
  /\ thrown = ""
  /\ prunedRows = {}
  /\ NoReconcile
  /\ NoAggregateCall
  /\ NoClassify
  /\ NoRepeat
  /\ NoCollector
  /\ NoServices

NextPrune ==
  \/ LogStarted
  \/ SelectBatch
  \/ DeleteChunk
  \/ CountOlderRows
  \/ OldestRecordedAt
  \/ Summarize
  \/ CatchError

SpecPrune == InitPrune /\ [][NextPrune]_vars

\* a collection run after the locations were fetched, on any list of them
InitLocations ==
  /\ operation = "runCollection"
  /\ locations \in LocationLists
  /\ locationIndex = 1
  /\ collectPc = "start"
  /\ loopStats = NoLoopStats
  /\ weatherRecords = <<>>
  /\ queueRecords = <<>>
  /\ outcomes = <<>>
  /\ tursoWeather = <<>>
  /\ tursoWaitTimes = <<>>
  /\ NoReconcile
  /\ NoAggregateCall
  /\ NoClassify
  /\ NoRepeat
  /\ NoCollector
  /\ NoPrune
  /\ NoCache
  /\ NoWriter

NextLocations ==
  \/ StartLoop
  \/ CollectWeather
  \/ CollectQueues
  \/ CountProcessed
  \/ CatchLocationError
  \/ WriteToTurso

SpecLocations == InitLocations /\ [][NextLocations]_vars

\* a ThemeParksWikiClient after construction: an empty cache, no call yet
InitCache ==
  /\ operation = "getParkWaitTimes"
  /\ NoCache
  /\ NoReconcile
  /\ NoAggregateCall
  /\ NoClassify
  /\ NoRepeat
  /\ NoCollector
  /\ NoPrune
  /\ NoLocations
  /\ NoWriter

NextCache ==
  \/ Tick
  \/ CallGetParkWaitTimes
  \/ LiveResponse
  \/ ChildrenResponse
  \/ ClearCache

SpecCache == InitCache /\ [][NextCache]_vars

\* entry of either writer, on any list of records, with empty tables
InitWriter ==
  /\ operation = "writeToTurso"
  /\ writer \in Writers
  /\ credentials \in BOOLEAN
  /\ records \in RecordLists
  /\ recordPos = 1
  /\ inserted = 0
  /\ attempts = <<>>
  /\ executed = <<>>
  /\ errorLog = <<>>
  /\ tursoRows = [table \in {TableOf(w) : w \in Writers} |-> {}]
  /\ writerPc = "start"
  /\ writeResult = NoWriteResult
  /\ NoReconcile
  /\ NoAggregateCall
  /\ NoClassify
  /\ NoRepeat
  /\ NoCollector
  /\ NoPrune
  /\ NoLocations
  /\ NoCache

NextWriter ==
  \/ GetTursoClient
  \/ AttemptRecord
  \/ ReturnWriteResult

SpecWriter == InitWriter /\ [][NextWriter]_vars

\* ------------------------------------------------------------- notation
\* processRideData has returned `results`
Returned == operation = "processRideData" /\ returned

\* aggregateWaitTime has returned `aggregate`
Aggregated == operation = "aggregateWaitTime" /\ aggregateDone

ReadingIndexes == 1..Len(results)
QueueTimesIndexes == 1..Len(queueTimesData)
ThemeparksIndexes == 1..Len(themeparksData)

\* the mapping sends Queue-Times record a to ThemeParks.wiki record b
MapsTo(a, b) ==
  /\ ToString(a.id) \in DOMAIN rideMapping
  /\ rideMapping[ToString(a.id)] = b.id

\* the Queue-Times records of the snapshot mapped to themeparksData[j]
MappedFrom(j) ==
  {i \in QueueTimesIndexes : MapsTo(queueTimesData[i], themeparksData[j])}

\* the readings whose rideId is id
ReadingsOf(id) == {k \in ReadingIndexes : results[k].rideId = id}

\* the Queue-Times-driven readings that carry themeparksData[j]
MergedInto(j) ==
  {k \in ReadingIndexes :
     /\ results[k].queueTimesWait # Undefined
     /\ results[k].rideId \in DOMAIN rideMapping
     /\ rideMapping[results[k].rideId] = themeparksData[j].id
     /\ results[k].themeparksWait = themeparksData[j].wait_time}

\* the ThemeParks.wiki-only readings of themeparksData[j]
EmittedAlone(j) ==
  {k \in ReadingIndexes :
     /\ results[k].queueTimesWait = Undefined
     /\ results[k].rideId = themeparksData[j].id
     /\ results[k].themeparksWait = themeparksData[j].wait_time}

DualSource(r) == r.queueTimesWait # Undefined /\ r.themeparksWait # Undefined
SingleSource(r) == (r.queueTimesWait = Undefined) # (r.themeparksWait = Undefined)
ThemeparksOnly(r) == r.queueTimesWait = Undefined /\ r.themeparksWait # Undefined
QueueTimesOnly(r) == r.queueTimesWait # Undefined /\ r.themeparksWait = Undefined

ThemeparksPosition(id) ==
  CHOOSE j \in ThemeparksIndexes : themeparksData[j].id = id

\* C4: at every point of processRideData the readings are the
\* Queue-Times-driven ones, in the order of the Queue-Times snapshot,
\* followed by the ThemeParks.wiki-only ones, in the order of the
\* ThemeParks.wiki snapshot; the returned sequence holds a reading for every
\* Queue-Times record.
C4_OutputOrder ==
  operation = "processRideData" =>
    /\ returned => Len(results) >= Len(queueTimesData)
    /\ \A k \in ReadingIndexes :
         IF k <= Len(queueTimesData)
         THEN /\ results[k].rideId = ToString(queueTimesData[k].id)
              /\ results[k].queueTimesWait # Undefined
         ELSE /\ results[k].queueTimesWait = Undefined
              /\ \E j \in ThemeparksIndexes :
                   themeparksData[j].id = results[k].rideId
    /\ \A k, l \in ReadingIndexes :
         (Len(queueTimesData) < k /\ k < l) =>
           ThemeparksPosition(results[k].rideId)
             < ThemeparksPosition(results[l].rideId)

\* C4 witness: two Queue-Times-driven readings followed by two
\* ThemeParks.wiki-only readings.
C4_Witness ==
  /\ Returned
  /\ Len(queueTimesData) = 2
  /\ Len(results) = 4
  /\ results[3].rideId = themeparksData[1].id
  /\ results[4].rideId = themeparksData[2].id

\* C5 as stated: every reading with both source waits precedes every
\* reading with only one of them.
C5_DualBeforeSingle ==
  Returned =>
    \A k, l \in ReadingIndexes :
      (DualSource(results[k]) /\ SingleSource(results[l])) => k < l

\* C5 amended: every reading with both source waits precedes every reading
\* that has only the ThemeParks.wiki wait; a reading that has only the
\* Queue-Times wait stands at the place of its record in the Queue-Times
\* snapshot and may precede a dual-source reading.
C5_DualBeforeThemeparksOnly ==
  Returned =>
    \A k, l \in ReadingIndexes :
      (DualSource(results[k]) /\ ThemeparksOnly(results[l])) => k < l

\* C5 witness: a Queue-Times-only reading, then a dual-source reading, then
\* a ThemeParks.wiki-only reading.
C5_Witness ==
  /\ Returned
  /\ Len(results) = 3
  /\ QueueTimesOnly(results[1])
  /\ DualSource(results[2])
  /\ ThemeparksOnly(results[3])

\* the readings of Queue-Times record i
QueueTimesReadings(i) == ReadingsOf(ToString(queueTimesData[i].id))

\* C6: the score is 0 with no value and 5 tenths with one; with two values
\* not both zero it follows percentDiff = 100 * |A - B| / ((A + B) / 2)
\* under inclusive breakpoints (at most 10: 1.0, at most 20: 0.9, at most
\* 30: 0.8, at most 50: 0.6, above: 0.4).  With d = |A - B| and s = A + B
\* the breakpoints are 20d <= s, 10d <= s, 20d <= 3s and 4d <= s.  A = 45,
\* B = 50 gives 0.9, and a percentDiff on a breakpoint takes the higher score.
C6_ConfidenceScore ==
  Aggregated =>
    LET q == queueTime
        t == themeparksTime
        d == Abs(q - t)
        s == q + t
    IN /\ (q = Undefined /\ t = Undefined) => aggregate.confidence = 0
       /\ ((q = Undefined) # (t = Undefined)) => aggregate.confidence = 5
       /\ (q # Undefined /\ t # Undefined /\ s > 0) =>
            aggregate.confidence =
              IF 20 * d <= s THEN 10
              ELSE IF 10 * d <= s THEN 9
              ELSE IF 20 * d <= 3 * s THEN 8
              ELSE IF 4 * d <= s THEN 6
              ELSE 4
       /\ (q = 45 /\ t = 50) => aggregate.confidence = 9
       /\ (q = 19 /\ t = 21) => aggregate.confidence = 10
       /\ (q = 9 /\ t = 11) => aggregate.confidence = 9
       /\ (q = 17 /\ t = 23) => aggregate.confidence = 8
       /\ (q = 3 /\ t = 5) => aggregate.confidence = 6
       /\ (q = 3 /\ t = 6) => aggregate.confidence = 4

\* C6 witness: the call of the spec's example, 45 and 50, scored 0.9.
C6_Witness ==
  /\ Aggregated
  /\ queueTime = 45
  /\ themeparksTime = 50
  /\ aggregate.confidence = 9

\* C7: with both values present the aggregated wait is (55 A + 45 B) / 100
\* rounded to the nearest integer, halves up; 45 and 50 give 47; the
\* weights are asymmetric: 10 and 0 give 6 while 0 and 10 give 5.
C7_WeightedBlend ==
  (Aggregated /\ queueTime # Undefined /\ themeparksTime # Undefined) =>
    LET blend == 55 * queueTime + 45 * themeparksTime
    IN /\ 100 * aggregate.aggregated - 50 <= blend
       /\ blend < 100 * aggregate.aggregated + 50
       /\ (queueTime = 45 /\ themeparksTime = 50) => aggregate.aggregated = 47
       /\ (queueTime = 10 /\ themeparksTime = 0) => aggregate.aggregated = 6
       /\ (queueTime = 0 /\ themeparksTime = 10) => aggregate.aggregated = 5

\* C7 witness: 10 and 0 blend to 5.5, which is rounded up to 6.
C7_Witness ==
  /\ Aggregated
  /\ queueTime = 10
  /\ themeparksTime = 0
  /\ aggregate.aggregated = 6

\* C8: a ride present in both sources with the same non-zero wait v has
\* confidence 1.0 and aggregated wait v, in the reading of processRideData
\* and in the result of a direct aggregateWaitTime call.
C8_EqualWaits ==
  /\ Returned =>
       \A i \in QueueTimesIndexes : \A j \in ThemeparksIndexes :
         ( /\ MapsTo(queueTimesData[i], themeparksData[j])
           /\ queueTimesData[i].wait_time = themeparksData[j].wait_time
           /\ queueTimesData[i].wait_time > 0 ) =>
           /\ QueueTimesReadings(i) # {}
           /\ \A k \in QueueTimesReadings(i) :
                /\ results[k].confidenceScore = 10
                /\ results[k].aggregatedWait = queueTimesData[i].wait_time
  /\ (Aggregated /\ queueTime = themeparksTime /\ queueTime > 0) =>
       /\ aggregate.confidence = 10
       /\ aggregate.aggregated = queueTime

\* C8 witness: a matched pair that both report a wait of 2.
C8_Witness ==
  /\ Returned
  /\ Len(results) = 1
  /\ results[1].queueTimesWait = 2
  /\ results[1].themeparksWait = 2
  /\ results[1].confidenceScore = 10
  /\ results[1].aggregatedWait = 2

\* C9: a ride present in exactly one source (a Queue-Times record with no
\* matched ThemeParks.wiki record, or a ThemeParks.wiki record no
\* Queue-Times record is mapped to) has confidence 0.5 and the wait of that
\* source as its aggregated wait, 0 included; so has a direct
\* aggregateWaitTime call with one value.
C9_SingleSource ==
  /\ Returned =>
       /\ \A i \in QueueTimesIndexes :
            (\A j \in ThemeparksIndexes :
               ~MapsTo(queueTimesData[i], themeparksData[j])) =>
              /\ QueueTimesReadings(i) # {}
              /\ \A k \in QueueTimesReadings(i) :
                   /\ results[k].themeparksWait = Undefined
                   /\ results[k].confidenceScore = 5
                   /\ results[k].aggregatedWait = queueTimesData[i].wait_time
       /\ \A j \in ThemeparksIndexes :
            MappedFrom(j) = {} =>
              /\ ReadingsOf(themeparksData[j].id) # {}
              /\ \A k \in ReadingsOf(themeparksData[j].id) :
                   /\ results[k].queueTimesWait = Undefined
                   /\ results[k].confidenceScore = 5
                   /\ results[k].aggregatedWait = themeparksData[j].wait_time
  /\ (Aggregated /\ queueTime # Undefined /\ themeparksTime = Undefined) =>
       (aggregate.confidence = 5 /\ aggregate.aggregated = queueTime)
  /\ (Aggregated /\ queueTime = Undefined /\ themeparksTime # Undefined) =>
       (aggregate.confidence = 5 /\ aggregate.aggregated = themeparksTime)

\* C9 witness: a Queue-Times-only ride reporting 0 and a ThemeParks.wiki-only
\* ride reporting 2.
C9_Witness ==
  /\ Returned
  /\ Len(results) = 2
  /\ QueueTimesOnly(results[1])
  /\ results[1].aggregatedWait = 0
  /\ results[1].confidenceScore = 5
  /\ ThemeparksOnly(results[2])
  /\ results[2].aggregatedWait = 2
  /\ results[2].confidenceScore = 5

\* C10: when both sources report 0 the confidence is 1.0 and the aggregated
\* wait is 0, and the division by the average is not evaluated; no call
\* divides by a zero average.
C10_BothZero ==
  /\ (Aggregated /\ queueTime = 0 /\ themeparksTime = 0) =>
       /\ aggregate.confidence = 10
       /\ aggregate.aggregated = 0
       /\ aggregate.dividedBy = NoDivision
  /\ Aggregated => aggregate.dividedBy # 0
  /\ Returned =>
       \A i \in QueueTimesIndexes : \A j \in ThemeparksIndexes :
         ( /\ MapsTo(queueTimesData[i], themeparksData[j])
           /\ queueTimesData[i].wait_time = 0
           /\ themeparksData[j].wait_time = 0 ) =>
           /\ QueueTimesReadings(i) # {}
           /\ \A k \in QueueTimesReadings(i) :
                /\ results[k].confidenceScore = 10
                /\ results[k].aggregatedWait = 0

\* C10 witness: aggregateWaitTime(0, 0) returned 1.0 and 0 without dividing.
C10_Witness ==
  /\ Aggregated
  /\ queueTime = 0
  /\ themeparksTime = 0
  /\ aggregate.confidence = 10
  /\ aggregate.dividedBy = NoDivision

\* getConfidenceLevel has returned `level`
Classified == operation = "getConfidenceLevel" /\ classified

\* C11: getConfidenceLevel answers every score of [0, 1] with the tier of
\* the exact boundaries: at least 0.8 high, from 0.6 below 0.8 medium, above
\* 0 below 0.6 low, 0 none; so 1.0, 0.9, 0.8 are high, 0.6 is medium, 0.5,
\* 0.4, 0.3 are low and 0 is none, and every score aggregateWaitTime
\* returns has the tier of that list.
C11_ConfidenceTiers ==
  /\ Classified =>
       /\ level.level \in {"high", "medium", "low", "none"}
       /\ level.level = "high" <=> 10 * score >= 8000
       /\ level.level = "medium" <=> (10 * score >= 6000 /\ 10 * score < 8000)
       /\ level.level = "low" <=> (score > 0 /\ 10 * score < 6000)
       /\ level.level = "none" <=> score = 0
       /\ score \in {1000, 900, 800} => level.level = "high"
       /\ score \in {799, 600} => level.level = "medium"
       /\ score \in {599, 500, 400, 300, 1} => level.level = "low"
  /\ Aggregated =>
       LET tier == getConfidenceLevel(ScoreOfConfidence(aggregate.confidence)).level
       IN /\ aggregate.confidence \in {10, 9, 8} => tier = "high"
          /\ aggregate.confidence = 6 => tier = "medium"
          /\ aggregate.confidence \in {5, 4, 3} => tier = "low"
          /\ aggregate.confidence = 0 => tier = "none"

\* C11 witness: the score 0.8 was classified high.
C11_Witness ==
  /\ Classified
  /\ score = 800
  /\ level.level = "high"

\* C12: aggregateWaitTime returns confidence 0 exactly when both arguments
\* are undefined, and every reading processRideData has pushed carries the
\* wait of at least one source and a confidence above 0.
C12_ZeroOnlyWithoutData ==
  /\ Aggregated =>
       (aggregate.confidence = 0 <=>
          (queueTime = Undefined /\ themeparksTime = Undefined))
  /\ operation = "processRideData" =>
       \A k \in ReadingIndexes :
         /\ results[k].queueTimesWait # Undefined \/ results[k].themeparksWait # Undefined
         /\ results[k].confidenceScore > 0
         /\ results[k].confidenceScore =
              calculateConfidence(results[k].queueTimesWait, results[k].themeparksWait)

\* C12 witness: a returned sequence with a single-source reading and a
\* dual-source reading of disagreeing waits, both scored above 0.
C12_Witness ==
  /\ Returned
  /\ \E k \in ReadingIndexes : SingleSource(results[k]) /\ results[k].confidenceScore = 5
  /\ \E k \in ReadingIndexes :
       /\ DualSource(results[k])
       /\ results[k].queueTimesWait = 0
       /\ results[k].themeparksWait = 2
       /\ results[k].confidenceScore = 4

\* C13: with wait times that are non-negative integers, aggregateWaitTime
\* returns a non-negative integer (0 with no argument and with two zeros, the
\* one argument with one), and so is the aggregatedWait of every reading
\* processRideData has pushed.
C13_AggregatedWaitDefined ==
  /\ Aggregated =>
       /\ aggregate.aggregated # Undefined
       /\ aggregate.aggregated \in Nat
       /\ (queueTime = 0 /\ themeparksTime = 0) => aggregate.aggregated = 0
       /\ (queueTime = Undefined /\ themeparksTime = Undefined) =>
            aggregate.aggregated = 0
  /\ operation = "processRideData" =>
       \A k \in ReadingIndexes :
         /\ results[k].aggregatedWait # Undefined
         /\ results[k].aggregatedWait \in Nat
         /\ (results[k].queueTimesWait = 0 /\ results[k].themeparksWait = 0) =>
              results[k].aggregatedWait = 0

\* C13 witness: a returned sequence with a dual-source reading of two zeros and
\* a single-source reading, both with a defined aggregatedWait.
C13_Witness ==
  /\ Returned
  /\ \E k \in ReadingIndexes :
       /\ results[k].queueTimesWait = 0
       /\ results[k].themeparksWait = 0
       /\ results[k].aggregatedWait = 0
  /\ \E k \in ReadingIndexes :
       /\ QueueTimesOnly(results[k])
       /\ results[k].aggregatedWait = results[k].queueTimesWait
       /\ results[k].aggregatedWait \in Nat

\* C14: the reading of a Queue-Times record is open exactly when the record
\* is open or the ThemeParks.wiki record it is mapped to is in the snapshot
\* and open; the reading of a ThemeParks.wiki record emitted alone has the
\* open flag of that record.
C14_IsOpen ==
  Returned =>
    /\ \A i \in QueueTimesIndexes :
         /\ QueueTimesReadings(i) # {}
         /\ \A k \in QueueTimesReadings(i) :
              results[k].isOpen <=>
                \/ queueTimesData[i].is_open
                \/ \E j \in ThemeparksIndexes :
                     /\ MapsTo(queueTimesData[i], themeparksData[j])
                     /\ themeparksData[j].is_open
    /\ \A j \in ThemeparksIndexes :
         MappedFrom(j) = {} =>
           /\ ReadingsOf(themeparksData[j].id) # {}
           /\ \A k \in ReadingsOf(themeparksData[j].id) :
                results[k].isOpen <=> themeparksData[j].is_open

\* C14 witness: a closed Queue-Times record matched to an open ThemeParks.wiki
\* record gives an open reading, next to a closed ThemeParks.wiki-only
\* reading.
C14_Witness ==
  /\ Returned
  /\ \E i \in QueueTimesIndexes, j \in ThemeparksIndexes :
       /\ MapsTo(queueTimesData[i], themeparksData[j])
       /\ ~queueTimesData[i].is_open
       /\ themeparksData[j].is_open
       /\ \E k \in QueueTimesReadings(i) : results[k].isOpen
  /\ \E k \in ReadingIndexes : ThemeparksOnly(results[k]) /\ ~results[k].isOpen

\* rideMapping without the entry of key
MappingWithout(key) == [k \in DOMAIN rideMapping \ {key} |-> rideMapping[k]]

\* the mapping sends Queue-Times record a to an id no record of the
\* ThemeParks.wiki snapshot has
MapsToAbsent(a) ==
  /\ IdString(a) \in DOMAIN rideMapping
  /\ \A j \in ThemeparksIndexes : themeparksData[j].id # rideMapping[IdString(a)]

\* C15: a Queue-Times record mapped to an id that is not in the
\* ThemeParks.wiki snapshot has a reading with no ThemeParks.wiki wait,
\* confidence 0.5 and its own wait as aggregatedWait, and the returned
\* sequence is the one processRideData returns for the mapping without
\* that entry.
C15_AbsentTargetIsNoMapping ==
  Returned =>
    \A i \in QueueTimesIndexes :
      MapsToAbsent(queueTimesData[i]) =>
        /\ QueueTimesReadings(i) # {}
        /\ \A k \in QueueTimesReadings(i) :
             /\ QueueTimesOnly(results[k])
             /\ results[k].confidenceScore = 5
             /\ results[k].aggregatedWait = queueTimesData[i].wait_time
        /\ results =
             ProcessRideDataResult(queueTimesData, themeparksData,
                                   MappingWithout(IdString(queueTimesData[i])))

\* C15 witness: record 1 is mapped to an id missing from a non-empty
\* ThemeParks.wiki snapshot, and its reading is Queue-Times-only.
C15_Witness ==
  /\ Returned
  /\ Len(themeparksData) = 1
  /\ Len(results) = 2
  /\ \E i \in QueueTimesIndexes :
       /\ MapsToAbsent(queueTimesData[i])
       /\ \E k \in QueueTimesReadings(i) : QueueTimesOnly(results[k])

\* C16: a processRideData call returns what processRideData is as a
\* function of its three arguments, and a call with the arguments of the
\* instance's first call returns what the first call returned, whatever call
\* was made in between.
C16_RepeatedCallSameOutput ==
  Returned =>
    /\ results = ProcessRideDataResult(queueTimesData, themeparksData, rideMapping)
    /\ (phase # "first" /\ CurrentInput = firstInput) => results = firstResults

\* C16 witness: the third call, on the arguments of the first, has returned
\* the one ThemeParks.wiki-only reading the first call returned.
C16_Witness ==
  /\ Returned
  /\ phase = "repeat"
  /\ Len(queueTimesData) = 0
  /\ Len(results) = 1
  /\ ThemeparksOnly(results[1])
  /\ results = firstResults

MatchedOf(i) ==
  {j \in ThemeparksIndexes : MapsTo(queueTimesData[i], themeparksData[j])}

\* C18: the reading of a Queue-Times record has the record's id as rideId
\* and its wait as queueTimesWait; it has a themeparksWait exactly when a
\* ThemeParks.wiki record is matched, and then that record's wait and
\* single_rider_time, else no singleRiderTime.  Every other reading has the
\* id, wait and single_rider_time of a ThemeParks.wiki record no Queue-Times
\* record is mapped to, and no queueTimesWait.
C18_FieldsPassThrough ==
  Returned =>
    /\ Len(results) >= Len(queueTimesData)
    /\ \A i \in QueueTimesIndexes :
         /\ results[i].rideId = IdString(queueTimesData[i])
         /\ results[i].rideName = queueTimesData[i].name
         /\ results[i].queueTimesWait = queueTimesData[i].wait_time
         /\ results[i].themeparksWait # Undefined <=> MatchedOf(i) # {}
         /\ \A j \in MatchedOf(i) :
              /\ results[i].themeparksWait = themeparksData[j].wait_time
              /\ results[i].singleRiderTime = themeparksData[j].single_rider_time
         /\ MatchedOf(i) = {} => results[i].singleRiderTime = Undefined
    /\ \A k \in (Len(queueTimesData) + 1)..Len(results) :
         \E j \in ThemeparksIndexes :
           /\ MappedFrom(j) = {}
           /\ results[k].rideId = themeparksData[j].id
           /\ results[k].rideName = themeparksData[j].name
           /\ results[k].queueTimesWait = Undefined
           /\ results[k].themeparksWait = themeparksData[j].wait_time
           /\ results[k].singleRiderTime = themeparksData[j].single_rider_time

\* C18 witness: a matched reading carrying the single rider time 5 of its
\* ThemeParks.wiki record, a ThemeParks.wiki-only reading carrying its own 5,
\* and a Queue-Times-only reading without one.
C18_Witness ==
  /\ Returned
  /\ \E k \in ReadingIndexes : DualSource(results[k]) /\ results[k].singleRiderTime = 5
  /\ \E k \in ReadingIndexes : ThemeparksOnly(results[k]) /\ results[k].singleRiderTime = 5
  /\ \E k \in ReadingIndexes :
       QueueTimesOnly(results[k]) /\ results[k].singleRiderTime = Undefined

RecordIndexes == 1..Len(waitTimeRecords)

\* C19 as stated: the stored source of a record is 'dual' when the record
\* has both waits, 'queue_times' when it has the Queue-Times wait alone and
\* 'themeparks' when it has the ThemeParks.wiki wait alone.
C19_SourceTagFromFields ==
  operation = "runEnhancedCollection" =>
    \A k \in RecordIndexes :
      LET record == waitTimeRecords[k]
      IN StoredSource(record) =
           IF record.queue_times_wait # Undefined /\ record.themeparks_wait # Undefined
           THEN "dual"
           ELSE IF record.queue_times_wait # Undefined THEN "queue_times"
           ELSE "themeparks"

\* C19 witness: a record without a ThemeParks.wiki wait is stored as 'dual'.
C19_Witness ==
  /\ operation = "runEnhancedCollection"
  /\ stage = "done"
  /\ \E k \in RecordIndexes :
       /\ waitTimeRecords[k].queue_times_wait # Undefined
       /\ waitTimeRecords[k].themeparks_wait = Undefined
       /\ StoredSource(waitTimeRecords[k]) = "dual"

\* the statuses the run has inserted into cron_logs
LoggedStatuses == {cronLogs[k] : k \in 1..Len(cronLogs)}

\* the prune run has ended: main returned, or its error reached process.exit(1)
PruneEnded == operation = "pruneHotWindow" /\ prunePc \in {"done", "exit1"}

\* C20: a prune run that logs 'completed' has counted, after pruning, zero
\* rows older than the cutoff in each of the two tables, and neither table
\* holds such a row; a run that ends while a table still holds a row older
\* than the cutoff has logged 'failed', has not logged 'completed', and ends
\* with a thrown error.
C20_CompletedMeansDrained ==
  operation = "pruneHotWindow" =>
    /\ "completed" \in LoggedStatuses =>
         /\ Len(tableResults) = Len(Tables)
         /\ \A k \in 1..Len(tableResults) :
              /\ tableResults[k].table = Tables[k]
              /\ tableResults[k].remainingOlderRows = 0
         /\ \A k \in 1..Len(Tables) : OlderIds(tableRows[Tables[k]]) = {}
    /\ (PruneEnded /\ \E k \in 1..Len(Tables) : OlderIds(tableRows[Tables[k]]) # {}) =>
         /\ "failed" \in LoggedStatuses
         /\ "completed" \notin LoggedStatuses
         /\ prunePc = "exit1"
         /\ thrown # ""

\* C20 witness: a run that deleted old rows from both tables, counted none
\* left and logged 'completed'.
C20_Witness ==
  /\ PruneEnded
  /\ cronLogs = <<"started", "completed">>
  /\ \A k \in 1..Len(Tables) :
       /\ tableResults[k].deletedRows > 0
       /\ tableResults[k].remainingOlderRows = 0
       /\ \E row \in prunedRows : row[1] = Tables[k]

\* themeparksData[j] is the target of a mapping entry whose Queue-Times id
\* is not in the Queue-Times snapshot
TargetOfAbsentRide(j) ==
  \E key \in DOMAIN rideMapping :
    /\ rideMapping[key] = themeparksData[j].id
    /\ \A i \in QueueTimesIndexes : IdString(queueTimesData[i]) # key

\* C21: once the Queue-Times loop is over, processedRides holds the ids of
\* the Queue-Times records and the mapping targets of those records and
\* nothing else, and the second loop does not change it; a ThemeParks.wiki
\* record has a reading of its own exactly when its id is not in
\* processedRides, so a record that is only the target of entries for
\* Queue-Times ids missing from the snapshot has one.
C21_SecondPassReadsSeenSetOnly ==
  (operation = "processRideData" /\ qtIndex > Len(queueTimesData)) =>
    /\ processedRides =
         {IdString(queueTimesData[i]) : i \in QueueTimesIndexes}
           \cup ({MapGet(rideMapping, IdString(queueTimesData[i])) :
                    i \in QueueTimesIndexes} \ {NoMapping})
    /\ \A j \in 1..(tpIndex - 1) :
         EmittedAlone(j) # {} <=> themeparksData[j].id \notin processedRides
    /\ returned =>
         \A j \in ThemeparksIndexes :
           (TargetOfAbsentRide(j) /\ MappedFrom(j) = {}) =>
             Cardinality(EmittedAlone(j)) = 1

\* C21 witness: the mapping sends an id missing from the Queue-Times snapshot
\* to a ThemeParks.wiki record, which came back as a reading of its own.
C21_Witness ==
  /\ Returned
  /\ Len(queueTimesData) = 1
  /\ \E j \in ThemeparksIndexes :
       /\ TargetOfAbsentRide(j)
       /\ MappedFrom(j) = {}
       /\ EmittedAlone(j) # {}

\* C22: for two non-negative integer waits that are not both zero the sum,
\* and so the average, is above zero and calculateConfidence goes on to
\* divide by it: the `average === 0` branch is not taken and 0.3 is not
\* returned; every score returned is one of 0, 0.4, 0.5, 0.6, 0.8, 0.9, 1.0.
C22_ZeroAverageUnreachable ==
  Aggregated =>
    /\ (/\ queueTime # Undefined
        /\ themeparksTime # Undefined
        /\ ~(queueTime = 0 /\ themeparksTime = 0)) =>
         /\ queueTime + themeparksTime > 0
         /\ aggregate.dividedBy = queueTime + themeparksTime
    /\ aggregate.confidence # 3
    /\ aggregate.confidence \in {0, 4, 5, 6, 8, 9, 10}

\* C22 witness: waits of 0 and 1, the pair nearest to a zero average, were
\* scored 0.4 by the division.
C22_Witness ==
  /\ Aggregated
  /\ queueTime = 0
  /\ themeparksTime = 1
  /\ aggregate.dividedBy = 1
  /\ aggregate.confidence = 4

\* C23: pruneTableInBatches never completes more than maxBatches batches, and
\* a batch in progress is within the limit, holds at most batchSize ids and
\* moves forward by one chunk per delete, so the loop ends; when the loop
\* has ended, hitBatchLimit is set exactly when batches has reached
\* maxBatches, and otherwise the last select returned no row and the table
\* holds no row older than the cutoff.
C23_PruneLoopBounded ==
  operation = "pruneHotWindow" =>
    /\ batches \in 0..maxBatches
    /\ hitBatchLimit => batches = maxBatches
    /\ prunePc = "delete" =>
         /\ batches < maxBatches
         /\ ~hitBatchLimit
         /\ Len(ids) \in 1..batchSize
         /\ idx \in 1..Len(ids)
    /\ prunePc \in {"count", "oldest"} =>
         /\ hitBatchLimit <=> batches = maxBatches
         /\ ~hitBatchLimit => (ids = <<>> /\ OlderIds(tableRows[CurrentTable]) = {})
    /\ \A k \in 1..Len(tableResults) :
         /\ tableResults[k].batches \in 0..maxBatches
         /\ tableResults[k].hitBatchLimit <=> tableResults[k].batches = maxBatches
         /\ ~tableResults[k].hitBatchLimit => tableResults[k].remainingOlderRows = 0

\* C23 witness: the first table stopped at the batch limit of 2 with a row
\* left, the second stopped early after one batch.
C23_Witness ==
  /\ operation = "pruneHotWindow"
  /\ Len(tableResults) = 2
  /\ maxBatches = 2
  /\ tableResults[1].hitBatchLimit
  /\ tableResults[1].batches = 2
  /\ tableResults[1].remainingOlderRows > 0
  /\ ~tableResults[2].hitBatchLimit
  /\ tableResults[2].batches = 1
  /\ tableResults[2].deletedRows > 0

\* the rows of a table the run has deleted
PrunedFrom(table) == {row \in prunedRows : row[1] = table}

\* C24: every row the run has deleted had recorded_at strictly older than
\* the cutoff and is gone from its table; the ids of the chunks already
\* deleted from the batch in progress are among the deleted rows;
\* deletedRows of the table being pruned, and of every TableResult, is the
\* number of rows deleted from that table, the sum of the counts of its
\* chunk deletes.
C24_OnlyOlderRowsDeleted ==
  operation = "pruneHotWindow" =>
    /\ \A row \in prunedRows : row[3] < CutoffTime
    /\ \A k \in 1..Len(Tables) : \A row \in PrunedFrom(Tables[k]) :
         row[2] \notin DOMAIN tableRows[Tables[k]]
    /\ Len(tableResults) < tableIndex =>
         deletedRows = Cardinality(PrunedFrom(CurrentTable))
    /\ prunePc = "delete" =>
         \A k \in 1..(idx - 1) :
           \E row \in PrunedFrom(CurrentTable) : row[2] = ids[k]
    /\ \A k \in 1..Len(tableResults) :
         tableResults[k].deletedRows = Cardinality(PrunedFrom(Tables[k]))

\* C24 witness: a finished run deleted two older rows of the first table in
\* two chunks and left its row recorded at the cutoff.
C24_Witness ==
  /\ PruneEnded
  /\ prunePc = "done"
  /\ deleteChunkSize = 1
  /\ tableResults[1].deletedRows = 2
  /\ Cardinality(PrunedFrom(Tables[1])) = 2
  /\ \E id \in DOMAIN tableRows[Tables[1]] : tableRows[Tables[1]][id] = CutoffTime

\* the positions of cronLogs holding a terminal status
TerminalLogs == {k \in 1..Len(cronLogs) : cronLogs[k] \in {"completed", "failed"}}

\* C25 as stated: 'started' is inserted before any row is deleted and is the
\* first insert; at most one terminal status, 'completed' or 'failed', is ever
\* inserted, after 'started'; a run that has ended has inserted exactly one.
C25_OneTerminalLog ==
  operation = "pruneHotWindow" =>
    /\ prunedRows # {} => (cronLogs # <<>> /\ cronLogs[1] = "started")
    /\ \A k \in 1..Len(cronLogs) : cronLogs[k] = "started" <=> k = 1
    /\ Cardinality(TerminalLogs) <= 1
    /\ PruneEnded => Cardinality(TerminalLogs) = 1

\* C25 witness: a run that counted a row older than the cutoff after pruning
\* has ended with 'failed' inserted twice.
C25_Witness ==
  /\ PruneEnded
  /\ HasRemainingOlder
  /\ cronLogs = <<"started", "failed", "failed">>

\* the iterations of the collection loop that ended with the given console line
EndedWith(line) == {k \in 1..Len(outcomes) : outcomes[k] = line}

\* C26: in the collection loop every iteration ends either in
\* `stats.processed++` or, after a throw, in the catch block's
\* `stats.errors++`; the loop then goes on with the next location, so that
\* when the loop ends every location has had its iteration and
\* stats.processed + stats.errors = stats.locations; the run then hands
\* every record collected, those of the failed locations included, to the
\* writers.
C26_LocationFailureIsolated ==
  operation = "runCollection" =>
    /\ loopStats.processed = Cardinality(EndedWith("WQ"))
    /\ loopStats.errors = Cardinality(EndedWith("ERROR"))
    /\ Len(outcomes) = loopStats.processed + loopStats.errors
    /\ collectPc \in {"weather", "queues", "processed", "catch"} =>
         /\ locationIndex <= Len(locations)
         /\ Len(outcomes) = locationIndex - 1
    /\ collectPc \in {"write", "exit0"} =>
         /\ loopStats.locations = Len(locations)
         /\ loopStats.processed + loopStats.errors = loopStats.locations
    /\ collectPc = "exit0" =>
         /\ tursoWeather = weatherRecords
         /\ tursoWaitTimes = queueRecords

\* C26 witness: the first of two locations threw after a record was pushed,
\* the second was processed, and the records of both were written.
C26_Witness ==
  /\ operation = "runCollection"
  /\ collectPc = "exit0"
  /\ outcomes = <<"ERROR", "WQ">>
  /\ loopStats.errors = 1
  /\ loopStats.processed = 1
  /\ \E k \in 1..Len(tursoWaitTimes) : tursoWaitTimes[k][1] = 1
  /\ \E k \in 1..Len(tursoWaitTimes) : tursoWaitTimes[k][1] = 2

\* a getParkWaitTimes call has been entered
Called == operation = "getParkWaitTimes" /\ clientPc # "idle"

\* the call found an entry stored less than cacheDuration before its test
FoundRecent == cached # NoEntry /\ checkedAt - cached.timestamp < CacheDuration

\* the call has returned after fetching
Fetched == Called /\ clientPc = "returned" /\ fetches >= 1

\* C27 as stated: a call that finds an entry for its parkId stored less
\* than 5 minutes ago returns the entry's data without a fetch; an entry 5
\* minutes old or older, or none, makes the call fetch; a call that saw a
\* non-OK response or a thrown error returns null and has stored nothing;
\* the first call after a clearCache always fetches.
C27_CacheAsStated ==
  Called =>
    /\ FoundRecent =>
         /\ fetches = 0
         /\ clientPc = "returned"
         /\ callResult = cached.data
    /\ ~FoundRecent => fetches >= 1
    /\ (Fetched /\ \E k \in 1..Len(responses) : responses[k] # "ok") =>
         /\ callResult = Null
         /\ stores = 0
    /\ clearedBefore # "none" => fetches >= 1

\* C27, amended: a call that finds an entry for its parkId stored less
\* than 5 minutes ago returns the entry's data without a fetch; any other
\* call fetches the live endpoint and, on a 404, the children endpoint;
\* the call stores exactly when its last fetch was answered OK, and then
\* returns what it stored, stamped with the time of the store; otherwise it
\* returns null and stores nothing; the first call after a clearCache that
\* ran between two calls finds no entry and fetches.
C27_CacheBehaviour ==
  Called =>
    /\ FoundRecent =>
         /\ fetches = 0
         /\ clientPc = "returned"
         /\ callResult = cached.data
    /\ ~FoundRecent => fetches >= 1
    /\ fetches = 0 => (stores = 0 /\ responses = <<>>)
    /\ Fetched =>
         /\ responses \in {<<"ok">>, <<"other">>, <<"throw">>, <<"404", "ok">>,
                           <<"404", "404">>, <<"404", "other">>, <<"404", "throw">>}
         /\ fetches = Len(responses)
         /\ IF responses[Len(responses)] = "ok"
              THEN /\ stores = 1
                   /\ callResult # Null
                   /\ callResult[1] = (IF Len(responses) = 1 THEN "live" ELSE "children")
                   /\ clearedSince = "none" =>
                        /\ cache[parkId].data = callResult
                        /\ cache[parkId].timestamp >= checkedAt
                        /\ cache[parkId].timestamp <= now
              ELSE /\ stores = 0
                   /\ callResult = Null
                   /\ clearedSince = "none" => cache[parkId] = cached
    /\ clearedBefore = "betweenCalls" => (cached = NoEntry /\ fetches >= 1)

\* C27 witness: a call returned, without a fetch, the children stored one
\* clock unit earlier by a call whose live fetch was answered 404; the
\* other park has no entry.
C27_Witness ==
  /\ Called
  /\ clientPc = "returned"
  /\ fetches = 0
  /\ cached.data[1] = "children"
  /\ callResult = cached.data
  /\ checkedAt - cached.timestamp = 1
  /\ \E id \in ParkIds : cache[id] = NoEntry

\* C28: either writer runs the try block of its records one by one in input
\* order, each record once; a record whose insert fails is logged and the
\* loop goes on; the result returned has total = records.length and
\* inserted = the number of inserts that resolved, between 0 and total;
\* every record is either inserted or logged. (Without credentials the
\* writer throws before its loop and returns nothing.)
C28_EveryRecordAttemptedOnce ==
  operation = "writeToTurso" =>
    /\ attempts = [k \in 1..(recordPos - 1) |-> k]
    /\ recordPos <= Len(records) + 1
    /\ inserted = Len(executed)
    /\ Len(executed) + Len(errorLog) = Len(attempts)
    /\ \A k \in 1..Len(attempts) :
         (\E e \in 1..Len(executed) : executed[e] = k)
           # (\E e \in 1..Len(errorLog) : errorLog[e] = k)
    /\ tursoRows[TableOf(writer)] = {records[executed[e]] : e \in 1..Len(executed)}
    /\ writerPc = "thrown" => (~credentials /\ attempts = <<>>)
    /\ (credentials /\ writerPc # "start") => writerPc \in {"loop", "returned"}
    /\ writerPc = "returned" =>
         /\ attempts = [k \in 1..Len(records) |-> k]
         /\ writeResult.total = Len(records)
         /\ writeResult.inserted = Len(executed)
         /\ 0 <= writeResult.inserted
         /\ writeResult.inserted <= writeResult.total

\* C28 witness: a writer returned after three records of which the second
\* failed: the first and the third were inserted, and inserted is 2 of 3.
C28_Witness ==
  /\ operation = "writeToTurso"
  /\ writerPc = "returned"
  /\ Len(records) = 3
  /\ executed = <<1, 3>>
  /\ errorLog = <<2>>
  /\ writeResult = [inserted |-> 2, total |-> 3]

\* the scores calculateConfidence gives two present waits, in tenths
DualScores == {10, 9, 8, 6, 4}

\* C29: in every reading processRideData has pushed, and in the result of
\* every aggregateWaitTime call with a wait, the confidence is 0.5 exactly
\* when one of the two source waits is absent, is one of 1.0, 0.9, 0.8, 0.6,
\* 0.4 exactly when both are present, and lies between 0 and 1.
C29_ScoreMatchesSources ==
  /\ operation = "processRideData" =>
       \A k \in ReadingIndexes :
         /\ results[k].confidenceScore = 5 <=> SingleSource(results[k])
         /\ results[k].confidenceScore \in DualScores <=> DualSource(results[k])
         /\ results[k].confidenceScore >= 0
         /\ results[k].confidenceScore <= 10
  /\ (Aggregated /\ (queueTime # Undefined \/ themeparksTime # Undefined)) =>
       /\ aggregate.confidence = 5 <=> (queueTime = Undefined) # (themeparksTime = Undefined)
       /\ aggregate.confidence \in DualScores <=>
            (queueTime # Undefined /\ themeparksTime # Undefined)
  /\ Aggregated => (aggregate.confidence >= 0 /\ aggregate.confidence <= 10)

\* C29 witness: a returned sequence with a dual-source reading scored 0.4,
\* a dual-source reading scored 1.0 and a single-source reading scored 0.5.
C29_Witness ==
  /\ Returned
  /\ \E k \in ReadingIndexes : DualSource(results[k]) /\ results[k].confidenceScore = 4
  /\ \E k \in ReadingIndexes : DualSource(results[k]) /\ results[k].confidenceScore = 10
  /\ \E k \in ReadingIndexes : SingleSource(results[k]) /\ results[k].confidenceScore = 5

\* C30: with both waits present the blended wait lies between the smaller
\* and the larger of the two, in every dual-source reading and in every
\* aggregateWaitTime result, and the confidence is the one
\* calculateConfidence gives the two waits in the other order.
C30_BlendBetweenSources ==
  /\ operation = "processRideData" =>
       \A k \in ReadingIndexes :
         DualSource(results[k]) =>
           LET a == results[k].queueTimesWait
               b == results[k].themeparksWait
           IN /\ (a <= results[k].aggregatedWait \/ b <= results[k].aggregatedWait)
              /\ (results[k].aggregatedWait <= a \/ results[k].aggregatedWait <= b)
              /\ results[k].confidenceScore = calculateConfidence(b, a)
  /\ (Aggregated /\ queueTime # Undefined /\ themeparksTime # Undefined) =>
       /\ (queueTime <= aggregate.aggregated \/ themeparksTime <= aggregate.aggregated)
       /\ (aggregate.aggregated <= queueTime \/ aggregate.aggregated <= themeparksTime)
       /\ aggregate.confidence = calculateConfidence(themeparksTime, queueTime)

\* C30 witness: aggregateWaitTime(0, 1) returned 0 where aggregateWaitTime(1, 0)
\* gives 1, both with confidence 0.4.
C30_Witness ==
  /\ Aggregated
  /\ queueTime = 0
  /\ themeparksTime = 1
  /\ aggregate.aggregated = 0
  /\ aggregateWaitTime(1, 0).aggregated = 1
  /\ aggregate.confidence = 4
  /\ aggregateWaitTime(1, 0).confidence = 4

====
